---- MODULE Spec2Model ----
(***************************************************************************)
(* Time synchronisation core of SIFT (uwsift): the WrappingDrivingPolicy   *)
(* (control/time_transformer_policies.py) driven by the operations of the  *)
(* TimeManager (model/time_manager.py) and by the layer list of the        *)
(* LayerModel (model/layer_model.py).                                      *)
(*                                                                         *)
(* Python values are kept as they are in the code: list indices are        *)
(* 0-based and may be negative, None is a value of its own, and an         *)
(* exception leaves the assignments made before it in place.               *)
(***************************************************************************)
EXTENDS Integers, Sequences, FiniteSets

\* ------------------------------------------------------------------ bounds
\* Timestamps are 1..MaxTime, layers (one per grouping key) are 1..MaxLayers.
MaxTime == 3
MaxLayers == 2
\* jump() is tried with every index in -(1+JumpSlack) .. MaxTime-1+JumpSlack:
\* past both ends of a timeline of one timestamp and past the end of the longest.
JumpSlack == 1
\* Before any timeline is adopted every forward step raises after moving the
\* cursor, so the cursor grows without bound: such steps stop at MaxCursor.
MaxCursor == 2

Times == 1..MaxTime
\* The layers add_dataset creates, named by their grouping key.
LayerIds == 1..MaxLayers
\* The two layers of init_system_layers: the lat/lon grid and the borders.
LatLonGridLayer == MaxLayers + 1
BordersLayer == MaxLayers + 2
SystemLayerIds == {LatLonGridLayer, BordersLayer}
\* The layer create_rgb_composite_layer makes for a CompositeRecipe.
CompositeLayer == MaxLayers + 3
\* The layer create_algebraic_composite_layer makes for an AlgebraicRecipe.
AlgebraicLayer == MaxLayers + 4
AllLayerIds == LayerIds \cup SystemLayerIds \cup {CompositeLayer, AlgebraicLayer}
\* A layer of kind POINTS, handed to _add_layer only.
PointsLayer == MaxLayers + 5
\* The product family keys, dataset identifiers and timestamps of the data
\* layers of a DataLayerCollection, and the length of the list of (uuid,
\* timestamp) tuples a DataLayer is made of.
MaxFamilies == 2
MaxUuid == 3
MaxDocTime == 2
MaxNewSteps == 2
FamilyKeys == 1..MaxFamilies
\* The values of a presentation setting (a colormap, color limits, a gamma).
MaxPresentation == 1
PresentationValues == 0..MaxPresentation
Uuids == 1..MaxUuid
DocTimes == 1..MaxDocTime
JumpIndices == (0 - (1 + JumpSlack))..(MaxTime - 1 + JumpSlack)

\* ------------------------------------------------------- Python semantics
\* Python's None, for an Optional[int], Optional[datetime] or Optional[LayerItem].
None == 0 - 1
\* self._timeline = None (the list not yet adopted): a list no timeline equals.
NoneTimeline == <<None>>

IsNoneList(l) == l = NoneTimeline

\* `if x:` for x an Optional[int]: None and 0 are both false.
Truthy(x) == x # None /\ x # 0

\* `not self.timeline`: None and the empty list are both false.
ListFalsy(l) == IsNoneList(l) \/ Len(l) = 0

\* l[i] of a Python list: valid for -len(l) <= i < len(l), IndexError otherwise.
PyIndexValid(l, i) == i >= 0 - Len(l) /\ i < Len(l)
PyGetItem(l, i) == IF i >= 0 THEN l[i + 1] ELSE l[Len(l) + i + 1]

\* list.index(x): the first 0-based position of x, None for ValueError.
ListIndex(l, x) ==
    IF \E i \in 1..Len(l) : l[i] = x
    THEN (CHOOSE i \in 1..Len(l) : l[i] = x /\ \A j \in 1..(i - 1) : l[j] # x) - 1
    ELSE None

Abs(x) == IF x < 0 THEN 0 - x ELSE x

SetMin(S) == CHOOSE m \in S : \A x \in S : m <= x

\* The timestamps of S in ascending order.
SortedSeq(S) == SelectSeq([t \in 1..MaxTime |-> t], LAMBDA t : t \in S)

\* l.insert(row, x) for 0 <= row <= len(l).
ListInsert(l, row, x) == SubSeq(l, 1, row) \o <<x>> \o SubSeq(l, row + 1, Len(l))

\* ------------------------------------------------------------------ state
VARIABLES
    layers,          \* LayerModel.layers: the list of layers, front first
    layer_timeline,  \* LayerItem.timeline of every layer: its set of timestamps
    layer_dynamic,   \* LayerItem.dynamic of every layer
    policy,          \* the WrappingDrivingPolicy object
    active,          \* of every layer, the timestamps of its datasets with is_active set
    recipe_input_layer_ids,  \* recipe.input_layer_ids of the composite layer, <<>> before it exists
    inputs_changed,  \* the timestamps of the composite layer whose dataset lists, as
                     \* input_datasets_uuids, datasets that an input layer has
                     \* replaced since by new ones (with new uuids)
    algebraic_recipe,  \* the AlgebraicRecipe of the algebraic layer: its
                     \* input_layer_ids (<<>> before the layer exists), its modified
                     \* flag, and the timestamps of the layer whose dataset lists
                     \* input datasets that have been replaced since
    presentation,    \* LayerItem.presentation of every layer: colormap, climits, gamma
    data_layers,     \* DataLayerCollection.data_layers: of every product family key
                     \* it has, the timeline of the DataLayer, a dict, as the list
                     \* of its items in iteration order
    product_family_keys,  \* DataLayerCollection.product_family_keys
    last             \* the operation last run, its arguments and its outcome

layerVars == <<layers, layer_timeline, layer_dynamic>>
recipeVars == <<recipe_input_layer_ids, inputs_changed, algebraic_recipe>>
collectionVars == <<data_layers, product_family_keys>>
otherVars == <<presentation, collectionVars>>
vars == <<layers, layer_timeline, layer_dynamic, policy, active,
          recipe_input_layer_ids, inputs_changed, algebraic_recipe,
          presentation, data_layers, product_family_keys, last>>

\* list(layer.timeline.keys()): the timeline is kept sorted by timestamp.
TimelineKeys(tls, layer) == SortedSeq(tls[layer])

\* LayerItem.add_dataset: the dataset is put at its timestamp (inserted, or
\* replacing the one there) and the layer is dynamic from then on.
item_add_dataset(tls, layer, t) == [tls EXCEPT ![layer] = @ \cup {t}]
item_set_dynamic(dyn, layer) == [dyn EXCEPT ![layer] = TRUE]

\* LayerItem.remove_dataset: the entry at the timestamp is deleted.
item_remove_dataset(tls, layer, t) == [tls EXCEPT ![layer] = @ \ {t}]

\* ProductDataset.is_active of a dataset just created is False; a dataset that
\* is removed takes its flag with it.
item_drop_active(act, layer, t) == [act EXCEPT ![layer] = @ \ {t}]

\* LayerItem.kind: the system layers are of kind LINES (_init_system_layer),
\* the layer of a CompositeRecipe is of kind RGB (_get_empty_rgb_layer), the
\* layer of an AlgebraicRecipe of kind COMPOSITE (_get_empty_algebraic_layer),
\* the layers made for loaded datasets are image layers.
KindOf(layer) ==
    IF layer \in SystemLayerIds THEN "LINES"
    ELSE IF layer = PointsLayer THEN "POINTS"
    ELSE IF layer = CompositeLayer THEN "RGB"
    ELSE IF layer = AlgebraicLayer THEN "COMPOSITE" ELSE "IMAGE"

\* ----------------------------------------------------- WrappingDrivingPolicy
PolicyInit ==
    [driving_idx |-> 0, curr_t_sim |-> None, timeline |-> NoneTimeline,
     driving_layer |-> None, driving_layer_uuid |-> None]

\* The outcome of a method: the object afterwards, the exception raised
\* ("" for none) and the value returned.
Outcome(p, raised, ret) == [p |-> p, raised |-> raised, ret |-> ret]

get_dynamic_layers(ls, dyn) == SelectSeq(ls, LAMBDA l : dyn[l])

driving_layer_index_in_layers(p, ls, dyn) ==
    ListIndex(get_dynamic_layers(ls, dyn), p.driving_layer_uuid)

\* Mutant: the first layer of the list, dynamic or not.
get_next_possible_driving_layer_any(ls, dyn) ==
    IF Len(ls) > 0 THEN ls[1] ELSE None

get_next_possible_driving_layer(ls, dyn) ==
    LET d == get_dynamic_layers(ls, dyn) IN
    IF Len(d) > 0 THEN d[1] ELSE None

\* Mutant: only the timestamps strictly before tstamp count as past.
find_nearest_past_strict(tl, tstamp) ==
    IF tstamp = None /\ Len(tl) > 0
    THEN [raised |-> "TypeError", ret |-> None]
    ELSE LET past == SelectSeq(tl, LAMBDA t : t < tstamp)
             distances == [i \in 1..Len(past) |-> Abs(past[i] - tstamp)]
         IN IF Len(distances) > 0
            THEN [raised |-> "",
                  ret |-> (CHOOSE i \in 1..Len(distances) :
                              /\ \A j \in 1..Len(distances) : distances[i] <= distances[j]
                              /\ \A j \in 1..(i - 1) : distances[j] > distances[i]) - 1]
            ELSE [raised |-> "", ret |-> None]

\* numpy: the timestamps <= tstamp, their distances to tstamp, and the argmin
\* of the distances (the first position of the minimum, in the filtered array).
find_nearest_past(tl, tstamp) ==
    IF tstamp = None /\ Len(tl) > 0
    THEN [raised |-> "TypeError", ret |-> None]
    ELSE LET past == SelectSeq(tl, LAMBDA t : t <= tstamp)
             distances == [i \in 1..Len(past) |-> Abs(past[i] - tstamp)]
         IN IF Len(distances) > 0
            THEN [raised |-> "",
                  ret |-> (CHOOSE i \in 1..Len(distances) :
                              /\ \A j \in 1..Len(distances) : distances[i] <= distances[j]
                              /\ \A j \in 1..(i - 1) : distances[j] > distances[i]) - 1]
            ELSE [raised |-> "", ret |-> None]

\* The last line of the driving_layer setter.
setter_curr_t_sim(p) ==
    IF ListFalsy(p.timeline) THEN Outcome([p EXCEPT !.curr_t_sim = None], "", None)
    ELSE IF PyIndexValid(p.timeline, p.driving_idx)
         THEN Outcome([p EXCEPT !.curr_t_sim = PyGetItem(p.timeline, p.driving_idx)], "", None)
         ELSE Outcome(p, "IndexError", None)

\* Mutant: the first selection keeps the cursor where it was.
setter_first_selection_keep_idx(p, layer, tls) ==
    [p EXCEPT !.driving_layer = layer,
              !.timeline = TimelineKeys(tls, layer)]

\* The setter's branch for a dynamic layer when no driving layer is set.
setter_first_selection(p, layer, tls) ==
    [p EXCEPT !.driving_layer = layer,
              !.timeline = TimelineKeys(tls, layer),
              !.driving_idx = 0]

driving_layer_setter(p, layer, tls, dyn) ==
    IF layer = None \/ ~dyn[layer]
    THEN setter_curr_t_sim([p EXCEPT !.driving_layer = None])
    ELSE IF p.driving_layer = None
    THEN setter_curr_t_sim(setter_first_selection(p, layer, tls))
    ELSE LET p1 == [p EXCEPT !.timeline = TimelineKeys(tls, layer),
                             !.driving_layer = layer]
             nearest_past_idx == find_nearest_past(p1.timeline, p1.curr_t_sim)
         IN IF nearest_past_idx.raised # ""
            THEN Outcome(p1, nearest_past_idx.raised, None)
            ELSE IF Truthy(nearest_past_idx.ret)
            THEN setter_curr_t_sim([p1 EXCEPT !.driving_idx = nearest_past_idx.ret])
            ELSE setter_curr_t_sim([p1 EXCEPT !.driving_idx = 0])

on_layers_update(p, ls, tls, dyn) ==
    LET driving_layer_index == driving_layer_index_in_layers(p, ls, dyn) IN
    IF Truthy(driving_layer_index)
    THEN Outcome(p, "", None)
    ELSE driving_layer_setter(p, get_next_possible_driving_layer(ls, dyn), tls, dyn)

change_timebase(p, layer, tls, dyn) == driving_layer_setter(p, layer, tls, dyn)

\* The assertions of curr_t_sim() hold.
curr_t_sim_asserts(p) ==
    IF ListFalsy(p.timeline) THEN p.curr_t_sim = None
    ELSE /\ PyIndexValid(p.timeline, p.driving_idx)
         /\ p.curr_t_sim = PyGetItem(p.timeline, p.driving_idx)

curr_timeline_index(p) == p.driving_idx

\* Mutant: the timestamp is looked up before the cursor is moved.
jump_to_t_sim_lookup_first(p, index) ==
    LET p1 == [p EXCEPT !.driving_idx = index] IN
    IF IsNoneList(p.timeline) THEN Outcome(p1, "TypeError", None)
    ELSE IF ~PyIndexValid(p.timeline, p.driving_idx) THEN Outcome(p1, "IndexError", None)
    ELSE Outcome(p1, "", PyGetItem(p.timeline, p.driving_idx))

jump_to_t_sim(p, index) ==
    LET p1 == [p EXCEPT !.driving_idx = index] IN
    IF IsNoneList(p1.timeline) THEN Outcome(p1, "TypeError", None)
    ELSE IF ~PyIndexValid(p1.timeline, p1.driving_idx) THEN Outcome(p1, "IndexError", None)
    ELSE Outcome(p1, "", PyGetItem(p1.timeline, p1.driving_idx))

\* Mutant: the forward step wraps one position too late (> for >=).
compute_t_sim_idx_late_wrap(p, backwards) ==
    IF backwards
    THEN IF IsNoneList(p.timeline) THEN Outcome(p, "TypeError", None)
         ELSE IF Len(p.timeline) = 0 THEN Outcome(p, "ZeroDivisionError", None)
         ELSE Outcome([p EXCEPT !.driving_idx =
                           (p.driving_idx + (Len(p.timeline) - 1)) % Len(p.timeline)], "", None)
    ELSE LET p1 == [p EXCEPT !.driving_idx = p.driving_idx + 1] IN
         IF IsNoneList(p1.timeline) THEN Outcome(p1, "TypeError", None)
         ELSE IF p1.driving_idx > Len(p1.timeline)
              THEN Outcome([p1 EXCEPT !.driving_idx = 0], "", None)
              ELSE Outcome(p1, "", None)

\* The cursor after the step, or the exception the arithmetic raises.
compute_t_sim_idx(p, backwards) ==
    IF backwards
    THEN IF IsNoneList(p.timeline) THEN Outcome(p, "TypeError", None)
         ELSE IF Len(p.timeline) = 0 THEN Outcome(p, "ZeroDivisionError", None)
         ELSE Outcome([p EXCEPT !.driving_idx =
                           (p.driving_idx + (Len(p.timeline) - 1)) % Len(p.timeline)], "", None)
    ELSE LET p1 == [p EXCEPT !.driving_idx = p.driving_idx + 1] IN
         IF IsNoneList(p1.timeline) THEN Outcome(p1, "TypeError", None)
         ELSE IF p1.driving_idx >= Len(p1.timeline)
              THEN Outcome([p1 EXCEPT !.driving_idx = 0], "", None)
              ELSE Outcome(p1, "", None)

compute_t_sim(p, backwards) ==
    LET moved == compute_t_sim_idx(p, backwards) IN
    IF moved.raised # "" THEN moved
    ELSE IF ~PyIndexValid(moved.p.timeline, moved.p.driving_idx)
         THEN Outcome(moved.p, "IndexError", None)
         ELSE LET t == PyGetItem(moved.p.timeline, moved.p.driving_idx) IN
              Outcome([moved.p EXCEPT !.curr_t_sim = t], "", t)

\* ------------------------------------------------------------- LayerModel
\* Mutant: every layer goes to the front.
add_layer_row_front(ls, layer) == 0

\* _add_layer: LINES and POINTS layers go to the front, the others in front of
\* the first layer that is neither.
add_layer_row(ls, layer) ==
    IF KindOf(layer) \in {"LINES", "POINTS"} THEN 0
    ELSE IF \E i \in 1..Len(ls) : KindOf(ls[i]) \notin {"LINES", "POINTS"}
         THEN (CHOOSE i \in 1..Len(ls) :
                  /\ KindOf(ls[i]) \notin {"LINES", "POINTS"}
                  /\ \A j \in 1..(i - 1) : KindOf(ls[j]) \in {"LINES", "POINTS"}) - 1
         ELSE Len(ls)

add_layer(ls, layer) == ListInsert(ls, add_layer_row(ls, layer), layer)

InLayers(ls, layer) == \E i \in 1..Len(ls) : ls[i] = layer

\* The notifications of _add_layer: didAddImageLayer for a layer of kind
\* IMAGE, then didReorderLayers with the list of layers.
add_layer_emits(ls, layer) ==
    (IF KindOf(layer) = "IMAGE" THEN <<[signal |-> "didAddImageLayer", uuids |-> <<layer>>]>>
     ELSE <<>>)
    \o <<[signal |-> "didReorderLayers", uuids |-> ls]>>

\* Mutant: _add_layer without the test for a layer that is in the list.
add_layer_call_unchecked(ls, layer) ==
    [ls |-> add_layer(ls, layer), raised |-> "",
     emits |-> add_layer_emits(add_layer(ls, layer), layer)]

\* _add_layer as a call: ValueError for a layer that is in the list, else
\* the layer is inserted and the notifications are emitted.
add_layer_call(ls, layer) ==
    IF InLayers(ls, layer)
    THEN [ls |-> ls, raised |-> "ValueError", emits |-> <<>>]
    ELSE [ls |-> add_layer(ls, layer), raised |-> "",
          emits |-> add_layer_emits(add_layer(ls, layer), layer)]

\* init_system_layers: _init_system_layer for the grid, then for the borders.
init_system_layers(ls) == add_layer(add_layer(ls, LatLonGridLayer), BordersLayer)

\* Mutant: a layer is created for every dataset.
get_layer_for_dataset_always_new(ls, key) == add_layer(ls, key)

\* _get_layer_for_dataset: the layer of the grouping key, created when missing.
get_layer_for_dataset(ls, key) == IF InLayers(ls, key) THEN ls ELSE add_layer(ls, key)

\* ------------------------------------------------------------ time matching
\* ProductDataset.uuid of the dataset of `layer` at timestamp t.
DatasetUuid(layer, t) == layer * (MaxTime + 1) + t

\* Mutant: the nearest key whatever its side, the later one on a tie.
RECURSIVE find_nearest_any(_, _, _)
find_nearest_any(keys, t_query, best) ==
    IF keys = <<>> \/ t_query = None THEN best
    ELSE IF best = None \/ Abs(Head(keys) - t_query) <= Abs(best - t_query)
         THEN find_nearest_any(Tail(keys), t_query, Head(keys))
         ELSE find_nearest_any(Tail(keys), t_query, best)

\* The find_nearest_past matching policy of the TimeMatcher: the keys of the
\* timeline are gone through in order and the last one not after the query
\* time is kept; None when there is none, or no query time.
RECURSIVE time_matcher_find_nearest_past(_, _, _)
time_matcher_find_nearest_past(keys, t_query, best) ==
    IF keys = <<>> \/ t_query = None THEN best
    ELSE IF Head(keys) <= t_query
         THEN time_matcher_find_nearest_past(Tail(keys), t_query, Head(keys))
         ELSE time_matcher_find_nearest_past(Tail(keys), t_query, best)

\* TimeMatcher.match(layer.timeline, t_sim) under the policy TimeManager is
\* constructed with by default.
time_matcher_match(keys, t_sim) == time_matcher_find_nearest_past(keys, t_sim, None)

\* Mutant: an entry for every layer of the model, dynamic or not.
match_times_all_layers(ls, tls, dyn, t_sim) ==
    [i \in 1..Len(ls) |->
        LET t_matched == time_matcher_match(TimelineKeys(tls, ls[i]), t_sim) IN
        [layer |-> ls[i],
         uuids |-> IF Truthy(t_matched) THEN <<DatasetUuid(ls[i], t_matched)>>
                   ELSE <<None>>]]

\* TimeManager._match_times: the dict layer.uuid -> list, in insertion order.
match_times(ls, tls, dyn, t_sim) ==
    LET dl == get_dynamic_layers(ls, dyn) IN
    [i \in 1..Len(dl) |->
        LET t_matched == time_matcher_match(TimelineKeys(tls, dl[i]), t_sim) IN
        [layer |-> dl[i],
         uuids |-> IF Truthy(t_matched) THEN <<DatasetUuid(dl[i], t_matched)>>
                   ELSE <<None>>]]

\* product_dataset.uuid in active_dataset_uuids
InList(l, x) == \E i \in 1..Len(l) : l[i] = x

\* on_didMatchTimes, the body of the inner loop: is_active of one dataset is
\* set or cleared.
activate_dataset(act, layer, t, uuids) ==
    [act EXCEPT ![layer] =
        IF InList(uuids, DatasetUuid(layer, t)) THEN @ \cup {t} ELSE @ \ {t}]

\* Mutant: the listed datasets are activated, the others are left as they are.
activate_datasets_only_on(act, layer, tls, uuids) ==
    [act EXCEPT ![layer] =
        @ \cup {t \in tls[layer] : InList(uuids, DatasetUuid(layer, t))}]

\* on_didMatchTimes, the loop over the datasets of one layer, as a whole: of
\* the datasets of the timeline the listed ones end up active, the others not.
activate_datasets(act, layer, tls, uuids) ==
    [act EXCEPT ![layer] =
        (@ \ tls[layer]) \cup {t \in tls[layer] : InList(uuids, DatasetUuid(layer, t))}]

\* Mutant: a consumer that keeps what is active and switches the rest over, so
\* that consuming the same mapping again undoes the activation.
on_didMatchTimes_toggle(act, mapping, tls) ==
    [l \in DOMAIN act |->
        IF \E i \in 1..Len(mapping) : mapping[i].layer = l
        THEN LET uuids == mapping[CHOOSE i \in 1..Len(mapping) : mapping[i].layer = l].uuids
                 listed == {t \in tls[l] : InList(uuids, DatasetUuid(l, t))}
             IN IF act[l] = listed THEN {} ELSE listed
        ELSE act[l]]

\* Mutant: a consumer that also clears the datasets of the layers the mapping
\* does not name.
on_didMatchTimes_clears_unnamed(act, mapping, tls) ==
    [l \in DOMAIN act |->
        IF \E i \in 1..Len(mapping) : mapping[i].layer = l
        THEN LET uuids == mapping[CHOOSE i \in 1..Len(mapping) : mapping[i].layer = l].uuids
             IN (act[l] \ tls[l]) \cup {t \in tls[l] : InList(uuids, DatasetUuid(l, t))}
        ELSE {}]

\* on_didMatchTimes, the loop over the items of the mapping.
RECURSIVE on_didMatchTimes(_, _, _)
on_didMatchTimes(act, mapping, tls) ==
    IF mapping = <<>> THEN act
    ELSE on_didMatchTimes(activate_datasets(act, Head(mapping).layer, tls,
                                            Head(mapping).uuids),
                          Tail(mapping), tls)

\* on_didMatchTimes emits didActivateProductDataset after every dataset it
\* has set: the active flags of the model as they are at each emission.
RECURSIVE activate_datasets_emits(_, _, _, _)
activate_datasets_emits(act, layer, keys, uuids) ==
    IF keys = <<>> THEN <<>>
    ELSE LET act1 == activate_dataset(act, layer, Head(keys), uuids) IN
         <<act1>> \o activate_datasets_emits(act1, layer, Tail(keys), uuids)

RECURSIVE on_didMatchTimes_emits(_, _, _)
on_didMatchTimes_emits(act, mapping, tls) ==
    IF mapping = <<>> THEN <<>>
    ELSE LET keys == TimelineKeys(tls, Head(mapping).layer)
             act1 == activate_datasets(act, Head(mapping).layer, tls, Head(mapping).uuids)
         IN activate_datasets_emits(act, Head(mapping).layer, keys, Head(mapping).uuids)
            \o on_didMatchTimes_emits(act1, Tail(mapping), tls)

\* TimeTransformer.t_sim: the transformer keeps no state of its own, it hands
\* out the policy's curr_t_sim(), whose assertions may fail.
transformer_t_sim(p) ==
    IF curr_t_sim_asserts(p) THEN [raised |-> "", ret |-> p.curr_t_sim]
    ELSE [raised |-> "AssertionError", ret |-> None]

\* Mutant: the mapping is emitted and nothing consumes it.
sync_to_time_transformer_unconsumed(p, act, ls, tls, dyn) ==
    LET t == transformer_t_sim(p)
        mapping == match_times(ls, tls, dyn, t.ret)
    IN IF t.raised # ""
       THEN [sync |-> t.raised, t_sim |-> None, matched |-> <<>>, active |-> act]
       ELSE [sync |-> "done", t_sim |-> t.ret, matched |-> mapping, active |-> act]

\* TimeManager.sync_to_time_transformer: the mapping is computed for the one
\* t_sim read at the start, emitted, and consumed by on_didMatchTimes.
sync_to_time_transformer(p, act, ls, tls, dyn) ==
    LET t == transformer_t_sim(p)
        mapping == match_times(ls, tls, dyn, t.ret)
    IN IF t.raised # ""
       THEN [sync |-> t.raised, t_sim |-> None, matched |-> <<>>, active |-> act]
       ELSE [sync |-> "done", t_sim |-> t.ret, matched |-> mapping,
             active |-> on_didMatchTimes(act, mapping, tls)]

\* The slot is not reached: the operation raised before it.
sync_skipped(act) ==
    [sync |-> "skipped", t_sim |-> None, matched |-> <<>>, active |-> act]

\* ------------------------------------------------- recipe layer cascade
\* The input_layer_ids a CompositeRecipe is made with: red, green and blue.
RecipeInputLayerIds == <<1, MaxLayers, 1>>

HasRecipeLayer(ids) == ids # <<>>

\* get_layers_by_uuids: the layer of each id, None for an id without a layer.
get_layers_by_uuids(ls, ids) ==
    [i \in 1..Len(ids) |-> IF ids[i] # None /\ InLayers(ls, ids[i]) THEN ids[i] ELSE None]

\* _get_timeline_of_layers: the timelines of the input layers that exist.
get_timeline_of_layers(tls, input_layers) ==
    LET present == SelectSeq(input_layers, LAMBDA l : l # None) IN
    [i \in 1..Len(present) |-> tls[present[i]]]

\* Mutant: the loop over the other timelines stops one short.
RECURSIVE intersect_timelines_one_short(_, _, _)
intersect_timelines_one_short(intersection, timelines, idx) ==
    IF idx > Len(timelines) - 2 THEN intersection
    ELSE intersect_timelines_one_short(intersection \cap timelines[idx], timelines, idx + 1)

\* _get_common_timeline_of_input_layers: the keys of the last timeline,
\* intersected with the keys of every other one.
RECURSIVE intersect_timelines(_, _, _)
intersect_timelines(intersection, timelines, idx) ==
    IF idx > Len(timelines) - 1 THEN intersection
    ELSE intersect_timelines(intersection \cap timelines[idx], timelines, idx + 1)

get_common_timeline_of_input_layers(timelines) ==
    IF Len(timelines) = 0 THEN {}
    ELSE intersect_timelines(timelines[Len(timelines)], timelines, 1)

\* Mutant: a timestamp found in both timelines stays in the list to remove.
RECURSIVE diff_of_timelines_keep_remove(_, _, _)
diff_of_timelines_keep_remove(common, current, acc) ==
    IF common = <<>> THEN acc
    ELSE diff_of_timelines_keep_remove(Tail(common), current,
             IF Head(common) \in current
             THEN [acc EXCEPT !.to_update = @ \cup {Head(common)}]
             ELSE [acc EXCEPT !.to_add = @ \cup {Head(common)}])

\* _get_diff_of_timelines, the loop over the common timeline: a timestep the
\* recipe layer has goes to the list to update and out of the list to remove,
\* one it has not goes to the list to add.
RECURSIVE diff_of_timelines(_, _, _)
diff_of_timelines(common, current, acc) ==
    IF common = <<>> THEN acc
    ELSE diff_of_timelines(Tail(common), current,
             IF Head(common) \in current
             THEN [acc EXCEPT !.to_update = @ \cup {Head(common)},
                              !.to_remove = @ \ {Head(common)}]
             ELSE [acc EXCEPT !.to_add = @ \cup {Head(common)}])

\* _get_diff_of_timelines: the list to remove starts as the keys of the recipe
\* layer.
get_diff_of_timelines(common_timeline, current) ==
    diff_of_timelines(SortedSeq(common_timeline), current,
                      [to_add |-> {}, to_update |-> {}, to_remove |-> current])

\* Mutant: every existing timestamp is taken as to be updated.
check_recipe_layer_sched_times_to_update_all(existing_sched_times, changed) ==
    existing_sched_times

\* _check_recipe_layer_sched_times_to_update for a CompositeRecipe: the
\* existing timestamps whose dataset.input_datasets_uuids differ from the
\* uuids of the datasets now in the input layers.
check_recipe_layer_sched_times_to_update(existing_sched_times, changed) ==
    {t \in existing_sched_times : t \in changed}

\* ProductDataset.update_multichannel_dataset_info leaves an info when every
\* channel has its input dataset.
multichannel_info_valid(input_layers) ==
    \A i \in 1..Len(input_layers) : input_layers[i] # None

\* The notifications of a cascade run, in the order they are emitted: one
\* record per emission, with the signal and the timestamp of its dataset. The
\* timestamps of one loop are taken in ascending order.
EventsFor(signal, times) ==
    [i \in 1..Cardinality(times) |-> [signal |-> signal, t |-> SortedSeq(times)[i]]]

\* A cascade that did not run.
NoCascade(tls, dyn, act, changed) ==
    [ran |-> FALSE, tls |-> tls, dyn |-> dyn, active |-> act, changed |-> changed,
     added |-> {}, updated |-> {}, removed |-> {}, events |-> <<>>, cascaded |-> {}]

\* The notifications of update_recipe_layer_timeline for a CompositeRecipe:
\* _remove_datasets (didDeleteProductDataset per dataset), then
\* _update_rgb_datasets (didChangeCompositeProductDataset per dataset, or
\* didDeleteProductDataset for a dataset left without info), then
\* _add_rgb_datasets (didAddCompositeDataset per dataset).
rgb_events(to_remove, to_update, to_add, valid) ==
    EventsFor("didDeleteProductDataset", to_remove)
    \o EventsFor(IF valid THEN "didChangeCompositeProductDataset"
                 ELSE "didDeleteProductDataset", to_update)
    \o EventsFor("didAddCompositeDataset", to_add)

\* Mutant: the datasets to add are made before the datasets to update are
\* removed and made anew.
algebraic_events_add_first(to_remove, to_update, to_add) ==
    EventsFor("didDeleteProductDataset", to_remove)
    \o EventsFor("didAddImageDataset", to_add)
    \o EventsFor("didDeleteProductDataset", to_update)
    \o EventsFor("didAddImageDataset", to_update)

\* The notifications of update_recipe_layer_timeline for an AlgebraicRecipe:
\* _remove_datasets, then _update_algebraic_datasets, which removes every
\* dataset to update (_remove_datasets) and adds it again
\* (_add_algebraic_datasets, didAddImageDataset per dataset), then
\* _add_algebraic_datasets for the datasets to add.
algebraic_events(to_remove, to_update, to_add) ==
    EventsFor("didDeleteProductDataset", to_remove)
    \o EventsFor("didDeleteProductDataset", to_update)
    \o EventsFor("didAddImageDataset", to_update)
    \o EventsFor("didAddImageDataset", to_add)

\* update_recipe_layer_timeline up to its didUpdateLayers: the datasets to
\* remove are removed (_remove_datasets), the ones to update are recomputed
\* and dropped when left without info (_update_rgb_datasets), the ones to add
\* are added (_add_rgb_datasets).
update_recipe_layer_timeline(ids, ls, tls, dyn, act, changed) ==
    LET input_layers == get_layers_by_uuids(ls, ids)
        common_timeline == get_common_timeline_of_input_layers(
                               get_timeline_of_layers(tls, input_layers))
        diff == get_diff_of_timelines(common_timeline, tls[CompositeLayer])
        to_update == check_recipe_layer_sched_times_to_update(diff.to_update, changed)
        dropped == IF multichannel_info_valid(input_layers) THEN {} ELSE to_update
        gone == diff.to_remove \cup dropped
    IN [ran |-> TRUE,
        tls |-> [tls EXCEPT ![CompositeLayer] = (@ \ gone) \cup diff.to_add],
        dyn |-> IF diff.to_add = {} THEN dyn ELSE item_set_dynamic(dyn, CompositeLayer),
        active |-> [act EXCEPT ![CompositeLayer] = @ \ gone],
        changed |-> (changed \ gone) \ to_update,
        added |-> diff.to_add, updated |-> to_update, removed |-> diff.to_remove,
        events |-> rgb_events(diff.to_remove, to_update, diff.to_add,
                              multichannel_info_valid(input_layers)),
        cascaded |-> {CompositeLayer}]

\* The AlgebraicRecipe of a model without algebraic layer.
AlgebraicInit == [input_layer_ids |-> <<>>, modified |-> FALSE, inputs_changed |-> {}]

\* Mutant: every existing timestamp is taken as to be updated, whether the
\* recipe is modified or not.
check_algebraic_layer_sched_times_to_update_all(existing_sched_times, rec) ==
    existing_sched_times

\* _check_recipe_layer_sched_times_to_update for an AlgebraicRecipe: every
\* existing timestamp when the recipe is modified, else as for a
\* CompositeRecipe.
check_algebraic_layer_sched_times_to_update(existing_sched_times, rec) ==
    IF rec.modified THEN existing_sched_times
    ELSE check_recipe_layer_sched_times_to_update(existing_sched_times, rec.inputs_changed)

\* update_recipe_layer_timeline for an AlgebraicRecipe, up to
\* recipe.modified = False: the datasets to remove are removed, the ones to
\* update are removed and made anew, the ones to add are made.
update_algebraic_layer_timeline(rec, ls, tls, dyn, act) ==
    LET input_layers == get_layers_by_uuids(ls, rec.input_layer_ids)
        common_timeline == get_common_timeline_of_input_layers(
                               get_timeline_of_layers(tls, input_layers))
        diff == get_diff_of_timelines(common_timeline, tls[AlgebraicLayer])
        to_update == check_algebraic_layer_sched_times_to_update(diff.to_update, rec)
        made == to_update \cup diff.to_add
    IN [ran |-> TRUE,
        tls |-> [tls EXCEPT ![AlgebraicLayer] = (@ \ diff.to_remove) \cup made],
        dyn |-> IF made = {} THEN dyn ELSE item_set_dynamic(dyn, AlgebraicLayer),
        active |-> [act EXCEPT ![AlgebraicLayer] = @ \ (diff.to_remove \cup to_update)],
        changed |-> (rec.inputs_changed \ diff.to_remove) \ to_update,
        added |-> diff.to_add, updated |-> to_update, removed |-> diff.to_remove,
        events |-> algebraic_events(diff.to_remove, to_update, diff.to_add),
        cascaded |-> {AlgebraicLayer}]

\* _trigger_composite_layer_update: the layer's recipe lists the changed layer.
recipe_uses_layer(ids, changed_layer) ==
    \E i \in 1..Len(ids) : ids[i] = changed_layer

\* LayerItem.add_dataset puts a new ProductDataset, with a new uuid, at the
\* timestamp: a composite dataset of that timestamp that lists the layer's
\* former dataset no longer lists the one in the layer.
item_mark_inputs_changed(changed, ids, tls, layer, t) ==
    IF recipe_uses_layer(ids, layer) /\ t \in tls[CompositeLayer]
    THEN changed \cup {t} ELSE changed

\* The same for the datasets of the algebraic layer, and for a set of
\* timestamps at which `layer` got new datasets.
item_mark_algebraic_inputs_changed(rec, tls, layer, times) ==
    IF recipe_uses_layer(rec.input_layer_ids, layer)
    THEN [rec EXCEPT !.inputs_changed = @ \cup (times \cap tls[AlgebraicLayer])]
    ELSE rec

\* ------------------------------------------------- calls of the cascade
\* The deepest nesting of calls followed: a call nested deeper is recorded
\* and not followed further.
MaxCascadeDepth == 4

\* layer.recipe of a layer of the model: the input_layer_ids of the recipe of
\* the composite and of the algebraic layer, no recipe for any other layer.
recipe_input_ids_of(layer, rgb_ids, alg_ids) ==
    IF layer = CompositeLayer THEN rgb_ids
    ELSE IF layer = AlgebraicLayer THEN alg_ids
    ELSE <<>>

RECURSIVE update_recipe_layer_timeline_calls(_, _, _, _, _)
RECURSIVE trigger_composite_layer_update_calls(_, _, _, _, _, _)

\* Mutant: the recipe of the layer is run whatever its class.
update_composite_layer_timeline_calls_any_recipe(ls, rgb_ids, alg_ids, layer, depth) ==
    update_recipe_layer_timeline_calls(ls, rgb_ids, alg_ids, layer, depth)

\* _update_composite_layer_timeline: update_recipe_layer_timeline is called
\* for a CompositeRecipe only.
update_composite_layer_timeline_calls(ls, rgb_ids, alg_ids, layer, depth) ==
    IF layer = CompositeLayer
    THEN update_recipe_layer_timeline_calls(ls, rgb_ids, alg_ids, layer, depth)
    ELSE <<>>

\* _trigger_composite_layer_update, the loop over self.layers from position
\* i on: the calls of update_recipe_layer_timeline made for the layers with a
\* recipe that lists the changed layer.
trigger_composite_layer_update_calls(ls, rgb_ids, alg_ids, changed_layer, i, depth) ==
    IF i > Len(ls) THEN <<>>
    ELSE (IF recipe_uses_layer(recipe_input_ids_of(ls[i], rgb_ids, alg_ids), changed_layer)
          THEN update_composite_layer_timeline_calls(ls, rgb_ids, alg_ids, ls[i], depth)
          ELSE <<>>)
         \o trigger_composite_layer_update_calls(ls, rgb_ids, alg_ids, changed_layer,
                                                 i + 1, depth)

\* update_recipe_layer_timeline: the call itself, with the depth of its
\* nesting, and for an AlgebraicRecipe the calls made by
\* _trigger_composite_layer_update for the recipe layer.
update_recipe_layer_timeline_calls(ls, rgb_ids, alg_ids, layer, depth) ==
    <<[layer |-> layer, depth |-> depth]>>
    \o (IF layer = AlgebraicLayer /\ depth <= MaxCascadeDepth
        THEN trigger_composite_layer_update_calls(ls, rgb_ids, alg_ids, layer, 1, depth + 1)
        ELSE <<>>)

\* --------------------------------------------------------------- events
\* didUpdateLayers: the slots connect_to_model has connected, in order: the
\* policy's on_layers_update, then sync_to_time_transformer (not reached when
\* the first raises).
emit_didUpdateLayers(p, act, ls, tls, dyn) ==
    LET out == on_layers_update(p, ls, tls, dyn) IN
    [p |-> out.p, raised |-> out.raised, ret |-> out.ret,
     s |-> IF out.raised = "" THEN sync_to_time_transformer(out.p, act, ls, tls, dyn)
           ELSE sync_skipped(act)]

\* ------------------------------------------------- presentation of a layer
\* LayerItem.get_datasets_uuids: the uuids of the datasets of the layer.
get_datasets_uuids(tls, layer) == {DatasetUuid(layer, t) : t \in tls[layer]}

\* _build_presentation_change_dict: every dataset uuid of the layer mapped to
\* the presentation element.
build_presentation_change_dict(tls, layer, presentation_element) ==
    [pd_uuid \in get_datasets_uuids(tls, layer) |-> presentation_element]

\* Mutant: the setting is set in the presentation of every layer.
change_presentation_for_layer_all(pres, ls, tls, uuid, setting, signal, element) ==
    IF ~InLayers(ls, uuid)
    THEN [presentation |-> pres, raised |-> "AttributeError", emits |-> <<>>]
    ELSE [presentation |-> [l \in DOMAIN pres |-> [pres[l] EXCEPT ![setting] = element]],
          raised |-> "",
          emits |-> <<[signal |-> signal,
                       change |-> build_presentation_change_dict(tls, uuid, element)]>>]

\* change_colormap_for_layer, change_color_limits_for_layer and
\* change_gamma_for_layer: get_layer_by_uuid (None for a uuid without layer,
\* whose presentation cannot be had), the setting of the layer's presentation
\* is set, and the change dict is emitted with the signal of the setting.
change_presentation_for_layer(pres, ls, tls, uuid, setting, signal, element) ==
    IF ~InLayers(ls, uuid)
    THEN [presentation |-> pres, raised |-> "AttributeError", emits |-> <<>>]
    ELSE [presentation |-> [pres EXCEPT ![uuid][setting] = element],
          raised |-> "",
          emits |-> <<[signal |-> signal,
                       change |-> build_presentation_change_dict(tls, uuid, element)]>>]

\* ------------------------------------------------------ DataLayerCollection
\* A Python dict is the list of its items, [k, v], in insertion order.
\* d[k] = v: the value of an existing key is replaced where it stands, a new
\* key is put at the end.
DictSet(d, k, v) ==
    IF \E i \in 1..Len(d) : d[i].k = k
    THEN [i \in 1..Len(d) |-> IF d[i].k = k THEN [k |-> k, v |-> v] ELSE d[i]]
    ELSE Append(d, [k |-> k, v |-> v])

DictValues(d) == {d[i].v : i \in 1..Len(d)}

\* sorted(items, key=...): x is put behind the items whose key is not greater
\* (the sort is stable).
RECURSIVE sorted_insert(_, _)
sorted_insert(done, x) ==
    IF done = <<>> THEN <<x>>
    ELSE IF done[Len(done)].k <= x.k THEN Append(done, x)
    ELSE Append(sorted_insert(SubSeq(done, 1, Len(done) - 1), x), done[Len(done)])

RECURSIVE sorted_by_key(_, _)
sorted_by_key(items, done) ==
    IF items = <<>> THEN done
    ELSE sorted_by_key(Tail(items), sorted_insert(done, Head(items)))

\* {k: v for (k, v) in items}
RECURSIVE dict_of_items(_, _)
dict_of_items(items, d) ==
    IF items = <<>> THEN d
    ELSE dict_of_items(Tail(items), DictSet(d, Head(items).k, Head(items).v))

\* DataLayer.__init__: the (uuid, timestamp) tuples are sorted by timestamp
\* and made the timeline, a dict from timestamp to uuid.
DataLayer(uuids_timestamps, product_family_key) ==
    [product_family_key |-> product_family_key,
     timeline |-> dict_of_items(
         sorted_by_key([i \in 1..Len(uuids_timestamps) |->
                           [k |-> uuids_timestamps[i].t, v |-> uuids_timestamps[i].uuid]],
                       <<>>),
         <<>>)]

\* Mutant: the timeline is left in the order of its items.
sort_timeline_as_is(timeline) == timeline

\* DataLayerCollection._sort_timeline
sort_timeline(timeline) == dict_of_items(sorted_by_key(timeline, <<>>), <<>>)

\* notify_update_collection, the loop over the time steps of a data layer
\* whose key is known: a uuid the old timeline has not is put at its
\* timestamp.
RECURSIVE add_new_timesteps(_, _)
add_new_timesteps(old_timeline, items) ==
    IF items = <<>> THEN old_timeline
    ELSE add_new_timesteps(
             IF Head(items).v \notin DictValues(old_timeline)
             THEN DictSet(old_timeline, Head(items).k, Head(items).v)
             ELSE old_timeline,
             Tail(items))

\* notify_update_collection, the body of the loop over the new data layers.
update_data_layer(c, data_layer) ==
    IF data_layer.product_family_key \in c.product_family_keys
    THEN [c EXCEPT !.data_layers[data_layer.product_family_key] =
                       sort_timeline(add_new_timesteps(@, data_layer.timeline))]
    ELSE [data_layers |->
              [k \in DOMAIN c.data_layers \cup {data_layer.product_family_key} |->
                  IF k = data_layer.product_family_key THEN data_layer.timeline
                  ELSE c.data_layers[k]],
          product_family_keys |-> c.product_family_keys \cup {data_layer.product_family_key}]

\* DataLayerCollection.notify_update_collection
RECURSIVE notify_update_collection(_, _)
notify_update_collection(c, new_data_layers) ==
    IF new_data_layers = <<>> THEN c
    ELSE notify_update_collection(update_data_layer(c, Head(new_data_layers)),
                                  Tail(new_data_layers))

\* DataLayerCollection.remove_by_uuid: every data layer loses its time steps
\* with the uuid, and its timeline is sorted.
remove_by_uuid(c, uuid_to_remove) ==
    [c EXCEPT !.data_layers =
        [k \in DOMAIN c.data_layers |->
            sort_timeline(SelectSeq(c.data_layers[k], LAMBDA it : it.v # uuid_to_remove))]]

\* --------------------------------------------------------------- actions
\* What is recorded of an operation: its name and arguments, the exception it
\* raised and what it returned, what its sync_to_time_transformer published and
\* what its cascade did; of a step the cursor it started from, and of an
\* operation that runs the driving_layer setter the driving layer it replaced;
\* `again` is set by a publish or a cascade that is run right after another;
\* `published` has, of add_dataset, the timelines of the layers at each of its
\* publishes.
Last(op, layer, index, backwards, before, out, s, c) ==
    [op |-> op, again |-> FALSE, layer |-> layer, index |-> index, backwards |-> backwards,
     sync |-> s.sync, t_sim |-> s.t_sim, matched |-> s.matched,
     cascade |-> c.ran, added |-> c.added, updated |-> c.updated, removed |-> c.removed,
     events |-> c.events, cascaded |-> c.cascaded, published |-> <<>>,
     new_data_layers |-> <<>>, uuid |-> None, value |-> None,
     before_idx |-> IF op = "step" THEN before.driving_idx ELSE None,
     before_layer |-> IF op \in {"change_timebase", "add_dataset", "remove_datasets"}
                      THEN before.driving_layer ELSE None,
     raised |-> out.raised, ret |-> out.ret]

\* The Presentation a layer is created with.
PresentationInit == [colormap |-> 0, climits |-> 0, gamma |-> 0]

Init ==
    /\ layers = <<>>
    /\ layer_timeline = [l \in AllLayerIds |-> {}]
    /\ layer_dynamic = [l \in AllLayerIds |-> FALSE]
    /\ policy = PolicyInit
    /\ active = [l \in AllLayerIds |-> {}]
    /\ recipe_input_layer_ids = <<>>
    /\ inputs_changed = {}
    /\ algebraic_recipe = AlgebraicInit
    /\ presentation = [l \in AllLayerIds |-> PresentationInit]
    /\ data_layers = <<>>
    /\ product_family_keys = {}
    /\ last = Last("init", None, None, FALSE, PolicyInit, Outcome(PolicyInit, "", None),
                   sync_skipped(active),
                   NoCascade(layer_timeline, layer_dynamic, active, inputs_changed))

\* The simulated time is published after an operation of the policy that
\* raised nothing.
publish_after(out, act, ls, tls, dyn) ==
    IF out.raised = "" THEN sync_to_time_transformer(out.p, act, ls, tls, dyn)
    ELSE sync_skipped(act)

\* Mutant: the step takes the timestamp it arrives at out of the driving
\* layer's timeline.
Step_consumes_timeline(backwards) ==
    /\ backwards \/ ~IsNoneList(policy.timeline) \/ policy.driving_idx < MaxCursor
    /\ \E out \in {compute_t_sim(policy, backwards)} :
       \E s \in {publish_after(out, active, layers, layer_timeline, layer_dynamic)} :
          /\ policy' = out.p
          /\ active' = s.active
          /\ last' = Last("step", None, None, backwards, policy, out, s,
                          NoCascade(layer_timeline, layer_dynamic, active, inputs_changed))
          /\ layer_timeline' = IF policy.driving_layer = None THEN layer_timeline
                               ELSE item_remove_dataset(layer_timeline, policy.driving_layer,
                                                        out.ret)
          /\ UNCHANGED <<otherVars, layers, layer_dynamic, recipeVars>>

\* TimeManager.step: TimeTransformer.step -> WrappingDrivingPolicy.compute_t_sim,
\* then sync_to_time_transformer.
Step(backwards) ==
    /\ backwards \/ ~IsNoneList(policy.timeline) \/ policy.driving_idx < MaxCursor
    /\ \E out \in {compute_t_sim(policy, backwards)} :
       \E s \in {publish_after(out, active, layers, layer_timeline, layer_dynamic)} :
          /\ policy' = out.p
          /\ active' = s.active
          /\ last' = Last("step", None, None, backwards, policy, out, s,
                          NoCascade(layer_timeline, layer_dynamic, active, inputs_changed))
          /\ UNCHANGED <<otherVars, layerVars, recipeVars>>

\* TimeManager.jump: TimeTransformer.jump -> WrappingDrivingPolicy.jump_to_t_sim,
\* then sync_to_time_transformer.
Jump(index) ==
    \E out \in {jump_to_t_sim(policy, index)} :
    \E s \in {publish_after(out, active, layers, layer_timeline, layer_dynamic)} :
       /\ policy' = out.p
       /\ active' = s.active
       /\ last' = Last("jump", None, index, FALSE, policy, out, s,
                       NoCascade(layer_timeline, layer_dynamic, active, inputs_changed))
       /\ UNCHANGED <<otherVars, layerVars, recipeVars>>

\* TimeManager.on_timebase_change: the dynamic layer at `index` becomes the
\* driving layer and the simulated time is published.
OnTimebaseChange(index) ==
    /\ index < Len(get_dynamic_layers(layers, layer_dynamic))
    /\ \E layer \in {get_dynamic_layers(layers, layer_dynamic)[index + 1]} :
       \E out \in {change_timebase(policy, layer, layer_timeline, layer_dynamic)} :
       \E s \in {publish_after(out, active, layers, layer_timeline, layer_dynamic)} :
          /\ policy' = out.p
          /\ active' = s.active
          /\ last' = Last("change_timebase", layer, None, FALSE, policy, out, s,
                          NoCascade(layer_timeline, layer_dynamic, active, inputs_changed))
          /\ UNCHANGED <<otherVars, layerVars, recipeVars>>

\* WrappingDrivingPolicy.change_timebase with no layer, or with a layer of the
\* model that is not dynamic: the driving layer is unset.
ChangeTimebase(layer) ==
    /\ layer = None \/ (InLayers(layers, layer) /\ ~layer_dynamic[layer])
    /\ \E out \in {change_timebase(policy, layer, layer_timeline, layer_dynamic)} :
          /\ policy' = out.p
          /\ last' = Last("change_timebase", layer, None, FALSE, policy, out,
                          sync_skipped(active),
                          NoCascade(layer_timeline, layer_dynamic, active, inputs_changed))
          /\ UNCHANGED <<otherVars, layerVars, active, recipeVars>>

\* LayerModel.add_dataset of a dataset with grouping key `key` and time t:
\* the dataset is put into its layer, didUpdateLayers is emitted, and then the
\* recipe layer that uses the layer is brought up to date
\* (_trigger_composite_layer_update), which emits didUpdateLayers again.
AddDataset(key, t) ==
    \E ls \in {get_layer_for_dataset(layers, key)} :
    \E tls \in {item_add_dataset(layer_timeline, key, t)} :
    \E dyn \in {item_set_dynamic(layer_dynamic, key)} :
    \E e1 \in {emit_didUpdateLayers(policy, item_drop_active(active, key, t), ls, tls, dyn)} :
    \E chg \in {item_mark_inputs_changed(inputs_changed, recipe_input_layer_ids,
                                         layer_timeline, key, t)} :
    \E c \in {IF e1.raised = "" /\ recipe_uses_layer(recipe_input_layer_ids, key)
              THEN update_recipe_layer_timeline(recipe_input_layer_ids, ls, tls, dyn,
                                                e1.s.active, chg)
              ELSE NoCascade(tls, dyn, e1.s.active, chg)} :
    \E e2 \in {IF c.ran THEN emit_didUpdateLayers(e1.p, c.active, ls, c.tls, c.dyn)
               ELSE e1} :
       /\ layers' = ls
       /\ layer_timeline' = c.tls
       /\ layer_dynamic' = c.dyn
       /\ policy' = e2.p
       /\ active' = e2.s.active
       /\ inputs_changed' = c.changed
       /\ algebraic_recipe' =
              item_mark_algebraic_inputs_changed(
                  item_mark_algebraic_inputs_changed(algebraic_recipe, layer_timeline,
                                                     key, {t}),
                  layer_timeline, CompositeLayer, c.added)
       /\ last' = [Last("add_dataset", key, None, FALSE, policy, e2, e2.s, c)
                       EXCEPT !.published =
                           (IF e1.s.sync = "done" THEN <<tls>> ELSE <<>>)
                           \o (IF c.ran /\ e2.s.sync = "done" THEN <<c.tls>> ELSE <<>>)]
       /\ UNCHANGED <<otherVars, recipe_input_layer_ids>>

\* Mutant: a layer left without datasets is taken out of the list of layers.
RemoveDataset_drops_empty_layer(layer, t) ==
    /\ InLayers(layers, layer)
    /\ t \in layer_timeline[layer]
    /\ \E tls \in {item_remove_dataset(layer_timeline, layer, t)} :
       \E ls \in {IF tls[layer] = {} THEN SelectSeq(layers, LAMBDA l : l # layer)
                  ELSE layers} :
       \E e \in {emit_didUpdateLayers(policy, item_drop_active(active, layer, t),
                                      ls, tls, layer_dynamic)} :
          /\ layer_timeline' = tls
          /\ layers' = ls
          /\ policy' = e.p
          /\ active' = e.s.active
          /\ last' = Last("remove_datasets", layer, None, FALSE, policy, e, e.s,
                          NoCascade(tls, layer_dynamic, e.s.active, inputs_changed))
          /\ UNCHANGED <<otherVars, layer_dynamic, recipeVars>>

\* LayerModel.remove_datasets_from_all_layers of the dataset of `layer` at t:
\* the dataset is removed and didUpdateLayers is emitted.
RemoveDataset(layer, t) ==
    /\ InLayers(layers, layer)
    /\ t \in layer_timeline[layer]
    /\ \E tls \in {item_remove_dataset(layer_timeline, layer, t)} :
       \E e \in {emit_didUpdateLayers(policy, item_drop_active(active, layer, t),
                                      layers, tls, layer_dynamic)} :
          /\ layer_timeline' = tls
          /\ policy' = e.p
          /\ active' = e.s.active
          /\ last' = Last("remove_datasets", layer, None, FALSE, policy, e, e.s,
                          NoCascade(tls, layer_dynamic, e.s.active, inputs_changed))
          /\ UNCHANGED <<otherVars, layers, layer_dynamic, recipeVars>>

\* LayerModel.init_system_layers: the two system layers are created, without
\* datasets, and put in front; no didUpdateLayers is emitted.
InitSystemLayers ==
    /\ ~InLayers(layers, LatLonGridLayer) /\ ~InLayers(layers, BordersLayer)
    /\ layers' = init_system_layers(layers)
    /\ last' = Last("init_system_layers", None, None, FALSE, policy, Outcome(policy, "", None),
                    sync_skipped(active),
                    NoCascade(layer_timeline, layer_dynamic, active, inputs_changed))
    /\ UNCHANGED <<otherVars, layer_timeline, layer_dynamic, policy, active, recipeVars>>

\* TimeManager.sync_to_time_transformer run on its own: the current simulated
\* time is published once more.
Sync ==
    \E s \in {sync_to_time_transformer(policy, active, layers,
                                       layer_timeline, layer_dynamic)} :
       /\ active' = s.active
       /\ last' = [Last("sync", None, None, FALSE, policy, Outcome(policy, "", None), s,
                        NoCascade(layer_timeline, layer_dynamic, active, inputs_changed))
                       EXCEPT !.again = (last.sync = "done")]
       /\ UNCHANGED <<otherVars, layerVars, policy, recipeVars>>

\* LayerModel.create_rgb_composite_layer for a recipe with the given
\* input_layer_ids: the empty composite layer is put into the list of layers.
CreateRgbCompositeLayer(ids) ==
    /\ ~HasRecipeLayer(recipe_input_layer_ids)
    /\ layers' = add_layer(layers, CompositeLayer)
    /\ recipe_input_layer_ids' = ids
    /\ last' = Last("create_rgb_composite_layer", CompositeLayer, None, FALSE, policy,
                    Outcome(policy, "", None), sync_skipped(active),
                    NoCascade(layer_timeline, layer_dynamic, active, inputs_changed))
    /\ UNCHANGED <<otherVars, layer_timeline, layer_dynamic, policy, active, inputs_changed,
                   algebraic_recipe>>

\* LayerModel.create_algebraic_composite_layer for a recipe with the given
\* input_layer_ids: the empty algebraic layer is put into the list of layers.
CreateAlgebraicCompositeLayer(ids) ==
    /\ ~HasRecipeLayer(algebraic_recipe.input_layer_ids)
    /\ layers' = add_layer(layers, AlgebraicLayer)
    /\ algebraic_recipe' = [AlgebraicInit EXCEPT !.input_layer_ids = ids]
    /\ last' = Last("create_algebraic_composite_layer", AlgebraicLayer, None, FALSE, policy,
                    Outcome(policy, "", None), sync_skipped(active),
                    NoCascade(layer_timeline, layer_dynamic, active, inputs_changed))
    /\ UNCHANGED <<otherVars, layer_timeline, layer_dynamic, policy, active,
                   recipe_input_layer_ids, inputs_changed>>

\* LayerModel._add_layer(layer) called for any layer, in the list or not.
AddLayer(layer) ==
    \E a \in {add_layer_call(layers, layer)} :
       /\ layers' = a.ls
       /\ last' = [Last("add_layer", layer, None, FALSE, policy,
                         Outcome(policy, a.raised, None), sync_skipped(active),
                         NoCascade(layer_timeline, layer_dynamic, active, inputs_changed))
                       EXCEPT !.events = a.emits]
       /\ UNCHANGED <<otherVars, layer_timeline, layer_dynamic, policy, active, recipeVars>>

\* A change of a presentation setting of the layer with the uuid.
ChangePresentation(op, uuid, setting, signal, element) ==
    \E c \in {change_presentation_for_layer(presentation, layers, layer_timeline,
                                            uuid, setting, signal, element)} :
       /\ presentation' = c.presentation
       /\ last' = [Last(op, uuid, None, FALSE, policy,
                         Outcome(policy, c.raised, None), sync_skipped(active),
                         NoCascade(layer_timeline, layer_dynamic, active, inputs_changed))
                       EXCEPT !.events = c.emits, !.value = element]
       /\ UNCHANGED <<layerVars, policy, active, recipeVars, collectionVars>>

\* LayerModel.change_colormap_for_layer(uuid, colormap)
ChangeColormapForLayer(uuid, colormap) ==
    ChangePresentation("change_colormap_for_layer", uuid, "colormap",
                       "didChangeColormap", colormap)

\* LayerModel.change_color_limits_for_layer(uuid, color_limits)
ChangeColorLimitsForLayer(uuid, color_limits) ==
    ChangePresentation("change_color_limits_for_layer", uuid, "climits",
                       "didChangeColorLimits", color_limits)

\* LayerModel.change_gamma_for_layer(uuid, gamma)
ChangeGammaForLayer(uuid, gamma) ==
    ChangePresentation("change_gamma_for_layer", uuid, "gamma", "didChangeGamma", gamma)

\* What the operations of the DataLayerCollection leave alone.
modelVars == <<layerVars, policy, active, recipeVars, presentation>>

\* DataLayerCollection.notify_update_collection(new_data_layers)
NotifyUpdateCollection(new_data_layers) ==
    \E c \in {notify_update_collection(
                  [data_layers |-> data_layers, product_family_keys |-> product_family_keys],
                  new_data_layers)} :
       /\ data_layers' = c.data_layers
       /\ product_family_keys' = c.product_family_keys
       /\ last' = [Last("notify_update_collection", None, None, FALSE, policy,
                         Outcome(policy, "", None), sync_skipped(active),
                         NoCascade(layer_timeline, layer_dynamic, active, inputs_changed))
                       EXCEPT !.new_data_layers = new_data_layers]
       /\ UNCHANGED modelVars

\* DataLayerCollection.remove_by_uuid(uuid_to_remove)
RemoveByUuid(uuid_to_remove) ==
    \E c \in {remove_by_uuid(
                  [data_layers |-> data_layers, product_family_keys |-> product_family_keys],
                  uuid_to_remove)} :
       /\ data_layers' = c.data_layers
       /\ product_family_keys' = c.product_family_keys
       /\ last' = [Last("remove_by_uuid", None, None, FALSE, policy,
                         Outcome(policy, "", None), sync_skipped(active),
                         NoCascade(layer_timeline, layer_dynamic, active, inputs_changed))
                       EXCEPT !.uuid = uuid_to_remove]
       /\ UNCHANGED modelVars

\* The AlgebraicRecipe is edited: its modified flag is set.
EditAlgebraicRecipe ==
    /\ HasRecipeLayer(algebraic_recipe.input_layer_ids)
    /\ ~algebraic_recipe.modified
    /\ algebraic_recipe' = [algebraic_recipe EXCEPT !.modified = TRUE]
    /\ last' = Last("edit_algebraic_recipe", AlgebraicLayer, None, FALSE, policy,
                    Outcome(policy, "", None), sync_skipped(active),
                    NoCascade(layer_timeline, layer_dynamic, active, inputs_changed))
    /\ UNCHANGED <<otherVars, layerVars, policy, active, recipe_input_layer_ids, inputs_changed>>

\* LayerModel.update_recipe_layer_timeline(recipe), the slot run for a
\* CompositeRecipe whose layer exists: the cascade, then didUpdateLayers.
UpdateRecipeLayerTimeline ==
    /\ HasRecipeLayer(recipe_input_layer_ids)
    /\ \E c \in {update_recipe_layer_timeline(recipe_input_layer_ids, layers,
                     layer_timeline, layer_dynamic, active, inputs_changed)} :
       \E e \in {emit_didUpdateLayers(policy, c.active, layers, c.tls, c.dyn)} :
          /\ layer_timeline' = c.tls
          /\ layer_dynamic' = c.dyn
          /\ policy' = e.p
          /\ active' = e.s.active
          /\ inputs_changed' = c.changed
          /\ algebraic_recipe' =
                 item_mark_algebraic_inputs_changed(algebraic_recipe, layer_timeline,
                                                    CompositeLayer, c.added)
          /\ last' = [Last("update_recipe_layer_timeline", CompositeLayer, None, FALSE,
                           policy, e, e.s, c)
                          EXCEPT !.again = last.cascade]
          /\ UNCHANGED <<otherVars, layers, recipe_input_layer_ids>>

\* The didUpdateLayers that ends a run of update_recipe_layer_timeline started
\* from within another (not reached when a slot of the first has raised).
emit_again(e, ls, tls, dyn) ==
    IF e.raised = "" THEN emit_didUpdateLayers(e.p, e.s.active, ls, tls, dyn) ELSE e

\* LayerModel.update_recipe_layer_timeline(recipe), the slot run for an
\* AlgebraicRecipe whose layer exists: the cascade, recipe.modified = False,
\* _trigger_composite_layer_update for the algebraic layer (which runs the
\* cascade of the CompositeRecipe that lists it, with its didUpdateLayers),
\* then didUpdateLayers.
UpdateAlgebraicLayerTimeline ==
    /\ HasRecipeLayer(algebraic_recipe.input_layer_ids)
    /\ \E a \in {update_algebraic_layer_timeline(algebraic_recipe, layers, layer_timeline,
                                                 layer_dynamic, active)} :
       \E chg \in {IF recipe_uses_layer(recipe_input_layer_ids, AlgebraicLayer)
                   THEN inputs_changed
                        \cup ((a.updated \cup a.added) \cap layer_timeline[CompositeLayer])
                   ELSE inputs_changed} :
       \E c \in {IF recipe_uses_layer(recipe_input_layer_ids, AlgebraicLayer)
                 THEN update_recipe_layer_timeline(recipe_input_layer_ids, layers,
                                                   a.tls, a.dyn, a.active, chg)
                 ELSE NoCascade(a.tls, a.dyn, a.active, chg)} :
       \E e1 \in {IF c.ran THEN emit_didUpdateLayers(policy, c.active, layers, c.tls, c.dyn)
                  ELSE [p |-> policy, raised |-> "", ret |-> None,
                        s |-> sync_skipped(c.active)]} :
       \E e2 \in {emit_again(e1, layers, c.tls, c.dyn)} :
          /\ layer_timeline' = c.tls
          /\ layer_dynamic' = c.dyn
          /\ policy' = e2.p
          /\ active' = e2.s.active
          /\ inputs_changed' = c.changed
          /\ algebraic_recipe' =
                 item_mark_algebraic_inputs_changed(
                     [algebraic_recipe EXCEPT !.modified = FALSE,
                                              !.inputs_changed = a.changed],
                     a.tls, CompositeLayer, c.added)
          /\ last' = Last("update_recipe_layer_timeline", AlgebraicLayer, None, FALSE,
                          policy, e2, e2.s,
                          [a EXCEPT !.cascaded = @ \cup c.cascaded])
          /\ UNCHANGED <<otherVars, layers, recipe_input_layer_ids>>

\* The time control and the loading and removal of datasets.
Next ==
    \/ \E backwards \in BOOLEAN : Step(backwards)
    \/ \E index \in JumpIndices : Jump(index)
    \/ \E index \in 0..(MaxLayers - 1) : OnTimebaseChange(index)
    \/ \E layer \in AllLayerIds \cup {None} : ChangeTimebase(layer)
    \/ InitSystemLayers
    \/ Sync
    \/ \E key \in LayerIds, t \in Times : AddDataset(key, t)
    \/ \E layer \in LayerIds, t \in Times : RemoveDataset(layer, t)

Spec == Init /\ [][Next]_vars

\* A recipe is made over layers of the model.
InputLayersExist(ids) ==
    \A i \in 1..Len(ids) : ids[i] = None \/ InLayers(layers, ids[i])

\* The loading and removal of datasets with an RGB composite layer over the
\* loaded layers.
NextCascade ==
    \/ \E key \in LayerIds, t \in Times : AddDataset(key, t)
    \/ \E layer \in LayerIds, t \in Times : RemoveDataset(layer, t)
    \/ /\ InputLayersExist(RecipeInputLayerIds)
       /\ CreateRgbCompositeLayer(RecipeInputLayerIds)
    \/ UpdateRecipeLayerTimeline

SpecCascade == Init /\ [][NextCascade]_vars

\* The input_layer_ids the recipes are made with: the AlgebraicRecipe over
\* two loaded layers, the CompositeRecipe with one channel, assigned to the
\* algebraic layer.
AlgebraicInputLayerIds == <<1, MaxLayers, None>>
RgbOverAlgebraicLayerIds == <<AlgebraicLayer, None, None>>
\* The timestamps of the datasets loaded next to the two recipe layers.
MaxRecipeTime == 2
RecipeTimes == 1..MaxRecipeTime

\* The loading and removal of datasets with an algebraic layer over the loaded
\* layers and an RGB composite layer over the algebraic layer.
NextRecipes ==
    \/ \E key \in LayerIds, t \in RecipeTimes : AddDataset(key, t)
    \/ \E layer \in LayerIds, t \in RecipeTimes : RemoveDataset(layer, t)
    \/ /\ InputLayersExist(AlgebraicInputLayerIds)
       /\ CreateAlgebraicCompositeLayer(AlgebraicInputLayerIds)
    \/ /\ InputLayersExist(RgbOverAlgebraicLayerIds)
       /\ CreateRgbCompositeLayer(RgbOverAlgebraicLayerIds)
    \/ EditAlgebraicRecipe
    \/ UpdateRecipeLayerTimeline
    \/ UpdateAlgebraicLayerTimeline

SpecRecipes == Init /\ [][NextRecipes]_vars

\* The layers handed to _add_layer: the layers of the model and a POINTS layer.
PlacementLayerIds == AllLayerIds \cup {PointsLayer}

\* _add_layer called alone, for layers of every kind, in any order.
NextLayers == \E layer \in PlacementLayerIds : AddLayer(layer)

SpecLayers == Init /\ [][NextLayers]_vars

\* The loading and removal of datasets and the changes of the presentation
\* settings of the layers.
NextPresentation ==
    \/ \E key \in LayerIds, t \in RecipeTimes : AddDataset(key, t)
    \/ \E layer \in LayerIds, t \in RecipeTimes : RemoveDataset(layer, t)
    \/ \E uuid \in LayerIds, colormap \in PresentationValues :
          ChangeColormapForLayer(uuid, colormap)
    \/ \E uuid \in LayerIds, color_limits \in PresentationValues :
          ChangeColorLimitsForLayer(uuid, color_limits)
    \/ \E uuid \in LayerIds, gamma \in PresentationValues :
          ChangeGammaForLayer(uuid, gamma)

SpecPresentation == Init /\ [][NextPresentation]_vars

\* The lists of (uuid, timestamp) tuples a DataLayer is made of, in any order.
RECURSIVE SeqsUpTo(_, _)
SeqsUpTo(S, n) ==
    IF n = 0 THEN {<<>>}
    ELSE SeqsUpTo(S, n - 1) \cup {Append(q, x) : q \in SeqsUpTo(S, n - 1), x \in S}

UuidsTimestamps == SeqsUpTo([uuid : Uuids, t : DocTimes], MaxNewSteps)

\* The lists of data layers given to notify_update_collection: one data
\* layer, or two data layers of one time step each.
NewDataLayers ==
    {<<DataLayer(ut, key)>> : ut \in UuidsTimestamps, key \in FamilyKeys}
    \cup {<<DataLayer(<<s1>>, k1), DataLayer(<<s2>>, k2)>> :
             s1 \in [uuid : Uuids, t : DocTimes], s2 \in [uuid : Uuids, t : DocTimes],
             k1 \in FamilyKeys, k2 \in FamilyKeys}

\* The data layers of a DataLayerCollection made empty, updated and reduced.
NextCollection ==
    \/ \E new_data_layers \in NewDataLayers : NotifyUpdateCollection(new_data_layers)
    \/ \E uuid \in Uuids : RemoveByUuid(uuid)

SpecCollection == Init /\ [][NextCollection]_vars

\* LayerModel.on_didMatchTimes, the slot, called with a dict that names some of
\* the layers of the model: the datasets of the named layers are set.
OnDidMatchTimes(t_matched_dict) ==
    /\ \A i \in 1..Len(t_matched_dict) : InLayers(layers, t_matched_dict[i].layer)
    /\ active' = on_didMatchTimes(active, t_matched_dict, layer_timeline)
    /\ last' = [Last("on_didMatchTimes", None, None, FALSE, policy,
                     Outcome(policy, "", None), sync_skipped(active),
                     NoCascade(layer_timeline, layer_dynamic, active, inputs_changed))
                    EXCEPT !.matched = t_matched_dict]
    /\ UNCHANGED <<otherVars, layerVars, policy, recipeVars>>

\* The lists of dataset uuids of a layer a dict of matches may hold.
ActiveDatasetUuids(layer) ==
    {<<None>>} \cup {<<DatasetUuid(layer, t)>> : t \in RecipeTimes}

\* The entries a dict of matches may hold for a layer.
MatchedEntries(layer) ==
    {[layer |-> layer, uuids |-> u] : u \in ActiveDatasetUuids(layer)}

\* The dicts of matches that name no layer, one layer or two layers.
MatchedDicts ==
    {<<>>}
    \cup UNION {{<<e>> : e \in MatchedEntries(l)} : l \in LayerIds}
    \cup UNION {{<<e1, e2>> : e1 \in MatchedEntries(l1), e2 \in MatchedEntries(l2)} :
                 <<l1, l2>> \in {p \in LayerIds \X LayerIds : p[1] # p[2]}}

\* The loading and removal of datasets, and dicts of matches consumed by the
\* layer model.
NextActivation ==
    \/ \E key \in LayerIds, t \in RecipeTimes : AddDataset(key, t)
    \/ \E layer \in LayerIds, t \in RecipeTimes : RemoveDataset(layer, t)
    \/ \E t_matched_dict \in MatchedDicts : OnDidMatchTimes(t_matched_dict)

SpecActivation == Init /\ [][NextActivation]_vars

\* Recipes whose input layers include the recipe layers themselves: the
\* composite lists itself and the algebraic layer, the algebraic layer lists
\* itself and the composite.
CyclicRgbInputLayerIds == <<1, CompositeLayer, AlgebraicLayer>>
CyclicAlgebraicInputLayerIds == <<AlgebraicLayer, CompositeLayer, None>>

\* The loading and removal of datasets and the runs of the cascade with recipe
\* layers over loaded layers, over each other and over themselves.
NextCycles ==
    \/ \E key \in LayerIds, t \in RecipeTimes : AddDataset(key, t)
    \/ \E layer \in LayerIds, t \in RecipeTimes : RemoveDataset(layer, t)
    \/ CreateAlgebraicCompositeLayer(CyclicAlgebraicInputLayerIds)
    \/ \E ids \in {RgbOverAlgebraicLayerIds, CyclicRgbInputLayerIds} :
          CreateRgbCompositeLayer(ids)
    \/ UpdateRecipeLayerTimeline
    \/ UpdateAlgebraicLayerTimeline

SpecCycles == Init /\ [][NextCycles]_vars

\* ======================================================================
\* Properties
\* ======================================================================
SetterOps == {"change_timebase", "add_dataset", "remove_datasets"}
LayersUpdateOps == {"add_dataset", "remove_datasets"}

SetMax(S) == CHOOSE m \in S : \A x \in S : x <= m

\* The cursor is a position of an adopted, non-empty driving timeline.
CursorValid(p) ==
    /\ ~IsNoneList(p.timeline)
    /\ p.driving_idx >= 0
    /\ p.driving_idx < Len(p.timeline)

\* The dynamic layer that comes first in the layer list, None when no layer is
\* dynamic.
FirstDynamicLayer(ls, dyn) ==
    IF \E i \in 1..Len(ls) : dyn[ls[i]]
    THEN ls[CHOOSE i \in 1..Len(ls) : dyn[ls[i]] /\ \A j \in 1..(i - 1) : ~dyn[ls[j]]]
    ELSE None

\* The layer the step handed to the driving_layer setter: the argument of
\* change_timebase, the first dynamic layer for a layers-update.
SelectedLayer ==
    IF last'.op = "change_timebase" THEN last'.layer
    ELSE FirstDynamicLayer(layers', layer_dynamic')

RECURSIVE StepForwardTimes(_, _)
StepForwardTimes(p, n) ==
    IF n = 0 THEN p ELSE StepForwardTimes(compute_t_sim(p, FALSE).p, n - 1)

\* ---------------------------------------------------------------- C1
C1_StepMovesByOne ==
    (last'.op = "step" /\ CursorValid(policy)) =>
        LET N == Len(policy.timeline) IN
        /\ last'.raised = ""
        /\ policy'.timeline = policy.timeline
        /\ policy'.driving_idx = IF last'.backwards
                                 THEN (policy.driving_idx - 1) % N
                                 ELSE (policy.driving_idx + 1) % N
        /\ policy'.curr_t_sim = policy.timeline[policy'.driving_idx + 1]
        /\ last'.ret = policy'.curr_t_sim

C1_StepCycle ==
    CursorValid(policy) =>
        LET N == Len(policy.timeline) IN
        /\ StepForwardTimes(policy, N).driving_idx = policy.driving_idx
        /\ policy.driving_idx = 0 => compute_t_sim(policy, TRUE).p.driving_idx = N - 1

\* C1: with the cursor on a position of a driving timeline of length N >= 1,
\* a step moves the cursor to (idx+1) mod N forwards and (idx-1) mod N
\* backwards, stores the timestamp there as the simulated time and returns it;
\* N forward steps lead back to the start, and a backward step from 0 to N-1.
C1_StepWraps == [][C1_StepMovesByOne]_vars /\ []C1_StepCycle

\* A backward step from position 0 of a timeline of at least two timestamps.
C1_Witness ==
    /\ last.op = "step" /\ last.raised = "" /\ last.backwards
    /\ last.before_idx = 0
    /\ Len(policy.timeline) >= 2
    /\ policy.driving_idx = Len(policy.timeline) - 1

\* ---------------------------------------------------------------- C2
\* C2: when a driving layer is set, the simulated time is t, and the setter
\* replaces it by a dynamic layer B, B's timeline is adopted and the cursor is
\* put on the largest timestamp of B that is <= t, or on index 0 when B has no
\* timestamp <= t.
C2_SwapKeepsNearestPast ==
    [][(/\ last'.op \in SetterOps
        /\ policy.driving_layer # None
        /\ policy.curr_t_sim # None
        /\ SelectedLayer # None
        /\ layer_dynamic'[SelectedLayer]) =>
          LET B == layer_timeline'[SelectedLayer]
              past == {k \in B : k <= policy.curr_t_sim}
          IN /\ last'.raised = ""
             /\ policy'.driving_layer = SelectedLayer
             /\ policy'.timeline = SortedSeq(B)
             /\ IF past # {}
                THEN /\ CursorValid(policy')
                     /\ policy'.timeline[policy'.driving_idx + 1] = SetMax(past)
                ELSE policy'.driving_idx = 0
      ]_vars

\* A swap to another layer that puts the cursor past the first position.
C2_Witness ==
    /\ last.op = "change_timebase" /\ last.raised = ""
    /\ last.before_layer # None
    /\ last.layer # None /\ last.layer # last.before_layer
    /\ policy.driving_layer = last.layer
    /\ policy.driving_idx >= 1
    /\ Len(policy.timeline) > policy.driving_idx + 1

\* ---------------------------------------------------------------- C3
\* C3: the stored simulated time is timeline[driving_idx] when the adopted
\* timeline is not empty and None when it is (the assertions of curr_t_sim()),
\* in every state reached: it is so initially, and no selection, step or jump
\* that returns without an exception makes it false.
C3_CurrTSimMatchesCursor ==
    [][(curr_t_sim_asserts(policy) /\ last'.raised = "") =>
          curr_t_sim_asserts(policy')]_vars

\* ---------------------------------------------------------------- C4
\* C4: a jump with an index outside [0, timeline_length) raises.
C4_InvalidJumpRaises ==
    (/\ last.op = "jump"
     /\ ~IsNoneList(policy.timeline)
     /\ (last.index < 0 \/ last.index >= Len(policy.timeline))) => last.raised # ""

\* ---------------------------------------------------------------- C5
\* C5: a jump that fails with an invalid index leaves the cursor and the
\* simulated time as they were.
C5_FailedJumpKeepsCursor ==
    [][(last'.op = "jump" /\ last'.raised = "IndexError") =>
          /\ policy'.driving_idx = policy.driving_idx
          /\ policy'.curr_t_sim = policy.curr_t_sim]_vars

\* ---------------------------------------------------------------- C6
\* C6: with no driving layer, or with an empty driving timeline, a step raises
\* nothing, changes nothing and leaves the simulated time absent.
C6_StepWithoutTimelineIsNoOp ==
    [][(last'.op = "step" /\ (policy.driving_layer = None \/ ListFalsy(policy.timeline))) =>
          /\ last'.raised = ""
          /\ policy' = policy
          /\ policy'.curr_t_sim = None]_vars

\* ---------------------------------------------------------------- C7
\* C7: after the driving layer is set to None or to a layer that is not
\* dynamic, there is no driving layer and the simulated time is absent.
C7_UnsetClearsTSim ==
    [][(last'.op = "change_timebase"
        /\ (last'.layer = None \/ ~layer_dynamic[last'.layer])) =>
          /\ policy'.driving_layer = None
          /\ policy'.curr_t_sim = None]_vars

\* ---------------------------------------------------------------- C8
\* C8: when there is no driving layer and the setter is given a dynamic layer
\* X, X becomes the driving layer, the sorted keys of X's timeline become the
\* driving timeline, the cursor is 0 and the simulated time is X's earliest
\* timestamp (None when X has no dataset).
C8_FirstSelectionStartsAtZero ==
    [][(/\ last'.op \in SetterOps
        /\ policy.driving_layer = None
        /\ SelectedLayer # None
        /\ layer_dynamic'[SelectedLayer]) =>
          LET X == layer_timeline'[SelectedLayer] IN
          /\ last'.raised = ""
          /\ policy'.driving_layer = SelectedLayer
          /\ policy'.timeline = SortedSeq(X)
          /\ policy'.driving_idx = 0
          /\ policy'.curr_t_sim = IF X = {} THEN None ELSE SetMin(X)
      ]_vars

\* A first selection, made after the cursor had been moved, of a layer with
\* at least two timestamps.
C8_Witness ==
    /\ last.op = "change_timebase" /\ last.raised = ""
    /\ last.before_layer = None
    /\ last.layer # None /\ layer_dynamic[last.layer]
    /\ policy.driving_layer = last.layer
    /\ Len(policy.timeline) >= 2
    /\ policy.driving_idx = 0
    /\ policy.curr_t_sim = policy.timeline[1]

\* ---------------------------------------------------------------- C9
\* C9: a layers-update leaves the driving layer and the cursor as they were
\* whenever the driving layer is still one of the model's dynamic layers.
C9_LayersUpdateKeepsDrivingLayer ==
    [][(/\ last'.op \in LayersUpdateOps
        /\ policy.driving_layer # None
        /\ InLayers(layers', policy.driving_layer)
        /\ layer_dynamic'[policy.driving_layer]) =>
          /\ policy'.driving_layer = policy.driving_layer
          /\ policy'.driving_idx = policy.driving_idx]_vars

\* ---------------------------------------------------------------- C10
C10_SlotSelects(p, q, ls, dyn) ==
    IF \E i \in 1..Len(ls) : dyn[ls[i]]
    THEN q.driving_layer = FirstDynamicLayer(ls, dyn)
    ELSE q.driving_layer = None /\ q.curr_t_sim = None

\* C10: a layers-update that finds no driving layer set makes the first
\* dynamic layer of the layer list the driving layer; when no layer is
\* dynamic there is still no driving layer and the simulated time is absent.
\* Checked of every layers-update taken and of the slot run in every state
\* reached.
C10_AutomaticSelection ==
    [][/\ (last'.op \in LayersUpdateOps /\ policy.driving_layer = None) =>
             C10_SlotSelects(policy, policy', layers', layer_dynamic')
       /\ (policy'.driving_layer = None) =>
             C10_SlotSelects(policy',
                 on_layers_update(policy', layers', layer_timeline', layer_dynamic').p,
                 layers', layer_dynamic')
      ]_vars

\* A layers-update without a driving layer, the system layers (not dynamic)
\* being in front of the layer that is selected.
C10_Witness ==
    /\ last.op \in LayersUpdateOps /\ last.raised = ""
    /\ last.before_layer = None
    /\ Len(layers) >= 3
    /\ ~layer_dynamic[layers[1]]
    /\ policy.driving_layer # None
    /\ policy.driving_layer = FirstDynamicLayer(layers, layer_dynamic)

\* C11: a jump to an index i of 0 .. timeline_length-1 raises nothing, leaves
\* the cursor at i (curr_timeline_index() = i) and returns the timestamp of
\* the driving timeline at position i.
C11_JumpToValidIndex ==
    [][(/\ last'.op = "jump"
        /\ ~IsNoneList(policy.timeline)
        /\ last'.index \in 0..(Len(policy.timeline) - 1))
       => /\ last'.raised = ""
          /\ curr_timeline_index(policy') = last'.index
          /\ policy'.timeline = policy.timeline
          /\ last'.ret = policy.timeline[last'.index + 1]]_vars

C11_Witness ==
    /\ last.op = "jump" /\ last.raised = ""
    /\ last.index = 2 /\ curr_timeline_index(policy) = 2
    /\ Len(policy.timeline) = 3 /\ last.ret = policy.timeline[3]

\* --------------------------------------------------------------- C12
\* The keys of a timeline that are not after the query time.
PastKeys(tls, layer, q) == {k \in tls[layer] : k <= q}

\* The entry of `layer` in a published mapping, <<>> when it has none.
EntriesOf(mapping, layer) == SelectSeq(mapping, LAMBDA e : e.layer = layer)

\* C12: for the timeline of every layer and every query time q, the default
\* (nearest-past) match is the largest key <= q, an exact key included, and
\* None when every key is after q or the timeline is empty; it is never a key
\* after q.
C12_MatchIsNearestPast ==
    \A l \in AllLayerIds : \A q \in Times :
        LET m == time_matcher_match(TimelineKeys(layer_timeline, l), q)
            past == PastKeys(layer_timeline, l, q)
        IN /\ m = (IF past = {} THEN None ELSE SetMax(past))
           /\ m # None => m <= q

\* A step has published a simulated time 2 that lies between the keys 1 and 3
\* of a layer, and the layer's entry lists the dataset of key 1.
C12_Witness ==
    /\ last.op = "step" /\ last.sync = "done" /\ last.t_sim = 2
    /\ \E l \in LayerIds :
          /\ layer_dynamic[l] /\ layer_timeline[l] = {1, 3}
          /\ time_matcher_match(TimelineKeys(layer_timeline, l), last.t_sim) = 1
          /\ EntriesOf(last.matched, l) = <<[layer |-> l, uuids |-> <<DatasetUuid(l, 1)>>]>>

\* --------------------------------------------------------------- C13
\* The datasets of `layer` that are to be active at simulated time t_sim.
NearestPastSet(tls, layer, t_sim) ==
    IF PastKeys(tls, layer, t_sim) = {} THEN {}
    ELSE {SetMax(PastKeys(tls, layer, t_sim))}

\* C13: after a step or jump that has completed (nothing raised, the
\* simulated time published) with a driving layer set, the active datasets of
\* every dynamic layer are exactly the dataset at the largest timestamp
\* <= t_sim of that layer's timeline, none when it has no such timestamp; so
\* at most one dataset of a layer is active.
C13_ActiveIsNearestPast ==
    [][(/\ last'.op \in {"step", "jump"}
        /\ last'.raised = "" /\ last'.sync = "done"
        /\ policy'.driving_layer # None) =>
          \A l \in AllLayerIds :
             (InLayers(layers', l) /\ layer_dynamic'[l]) =>
                 /\ active'[l] = NearestPastSet(layer_timeline', l, last'.t_sim)
                 /\ Cardinality(active'[l]) <= 1]_vars

\* A step to simulated time 3 on a driving timeline 1, 2, 3, with another
\* layer of timestamps 1 and 2 showing its dataset of timestamp 2.
C13_Witness ==
    /\ last.op = "step" /\ last.raised = "" /\ last.sync = "done"
    /\ policy.driving_layer # None
    /\ layer_timeline[policy.driving_layer] = {1, 2, 3}
    /\ last.t_sim = 3
    /\ \E l \in LayerIds :
          /\ l # policy.driving_layer /\ layer_dynamic[l]
          /\ layer_timeline[l] = {1, 2} /\ active[l] = {2}

\* --------------------------------------------------------------- C14
\* The datasets of `layer` listed in an entry of the mapping.
ListedDatasets(tls, layer, uuids) ==
    {t \in tls[layer] : InList(uuids, DatasetUuid(layer, t))}

\* C14: when a published mapping has been consumed, of every layer of the
\* mapping exactly the listed datasets are active, every other dataset of the
\* layer is not.
C14_ExactlyListedActive ==
    [][(last'.sync = "done") =>
          \A i \in 1..Len(last'.matched) :
             LET e == last'.matched[i] IN
             active'[e.layer] = ListedDatasets(layer_timeline', e.layer, e.uuids)]_vars

\* A mapping was consumed that turned a dataset of a layer off and another of
\* the same layer on.
C14_Witness ==
    /\ last.op = "step" /\ last.sync = "done"
    /\ \E l \in LayerIds :
          /\ Len(EntriesOf(last.matched, l)) = 1
          /\ last.t_sim = 2 /\ layer_timeline[l] = {1, 2, 3}
          /\ active[l] = {2}
          /\ EntriesOf(last.matched, l)[1].uuids = <<DatasetUuid(l, 2)>>

\* --------------------------------------------------------------- C15
\* C15: a dynamic layer whose timeline is empty or has no timestamp <= t_sim
\* has an empty list in the published mapping, and publishing raises nothing.
C15_NoMatchGivesEmptyList ==
    (last.sync = "done") =>
        /\ last.raised = ""
        /\ \A i \in 1..Len(last.matched) :
              PastKeys(layer_timeline, last.matched[i].layer, last.t_sim) = {}
                  => last.matched[i].uuids = <<>>

\* --------------------------------------------------------------- C16
\* C16: sync_to_time_transformer run again right after a publish, with no
\* step, jump or change of a timeline in between, publishes the same simulated
\* time and the same mapping, and changes no active flag nor anything else of
\* the model or the policy.
C16_RepublishIsIdempotent ==
    [][(last'.op = "sync" /\ last.sync = "done") =>
          /\ last'.sync = "done"
          /\ last'.t_sim = last.t_sim
          /\ last'.matched = last.matched
          /\ active' = active
          /\ policy' = policy
          /\ layerVars' = layerVars]_vars

\* A second publish in a row, of a mapping that lists a dataset.
C16_Witness ==
    /\ last.op = "sync" /\ last.again /\ last.sync = "done"
    /\ Len(last.matched) = 2
    /\ \E l \in LayerIds : active[l] # {}
    /\ \E l \in LayerIds : layer_dynamic[l] /\ active[l] = {} /\ layer_timeline[l] # {}

\* --------------------------------------------------------------- C17
\* The layers of a mapping.
MappingLayers(mapping) == {mapping[i].layer : i \in 1..Len(mapping)}

\* Active flags in which a layer of the mapping already shows what the new
\* simulated time gives it while another still shows what it showed before.
PartialUpdate(seen, before, after, mapping) ==
    \E l1, l2 \in MappingLayers(mapping) :
        /\ seen[l1] = after[l1] /\ seen[l1] # before[l1]
        /\ seen[l2] = before[l2] /\ seen[l2] # after[l2]

\* C17: the mapping of a publish is computed for one simulated time, and at
\* none of the notifications the layer model sends while it consumes the
\* mapping do the active flags show a partial update.
C17_NoPartialUpdateObservable ==
    [][(last'.op \in {"step", "jump", "sync"} /\ last'.sync = "done") =>
          /\ last'.matched = match_times(layers, layer_timeline, layer_dynamic, last'.t_sim)
          /\ LET emits == on_didMatchTimes_emits(active, last'.matched, layer_timeline) IN
             \A i \in 1..Len(emits) :
                ~PartialUpdate(emits[i], active, active', last'.matched)]_vars

\* --------------------------------------------------------------- C18
\* C18: the mapping of a publish has one entry for every dynamic layer of the
\* model, in the order of the layers, the driving layer included, and none for
\* a layer that is not dynamic; the entry of a layer with a match lists the
\* identifier of the dataset at the matched timestamp of that layer, only.
C18_OneEntryPerDynamicLayer ==
    (last.sync = "done") =>
        /\ \A l \in AllLayerIds :
              Len(EntriesOf(last.matched, l)) =
                  (IF InLayers(layers, l) /\ layer_dynamic[l] THEN 1 ELSE 0)
        /\ Len(last.matched) = Len(get_dynamic_layers(layers, layer_dynamic))
        /\ \A i \in 1..Len(last.matched) :
              LET l == last.matched[i].layer
                  t_matched == time_matcher_match(TimelineKeys(layer_timeline, l), last.t_sim)
              IN t_matched # None =>
                     /\ t_matched \in layer_timeline[l]
                     /\ last.matched[i].uuids = <<DatasetUuid(l, t_matched)>>

\* A publish with the system layers in the model (not dynamic), a driving
\* layer and another dynamic layer, both with a match, on different timestamps.
C18_Witness ==
    /\ last.sync = "done" /\ Len(last.matched) = 2
    /\ InLayers(layers, LatLonGridLayer)
    /\ policy.driving_layer # None
    /\ \E l \in LayerIds :
          /\ l # policy.driving_layer
          /\ EntriesOf(last.matched, l) = <<[layer |-> l, uuids |-> <<DatasetUuid(l, 1)>>]>>
          /\ EntriesOf(last.matched, policy.driving_layer) =
                 <<[layer |-> policy.driving_layer,
                    uuids |-> <<DatasetUuid(policy.driving_layer, 2)>>]>>

\* --------------------------------------------------------------- C19
\* The timeline keys the input layers of the recipe have in common.
InputIntersection(ids, tls) ==
    {t \in Times : \A i \in 1..Len(ids) : t \in tls[ids[i]]}

\* C19: with a composite layer over input layers whose timeline keys are the
\* intersection of theirs, after a dataset was added to an input layer
\* (add_dataset) or removed from one (remove_datasets_from_all_layers), the
\* timeline keys of the composite layer are again the intersection of the
\* timeline keys of its input layers.
C19_CompositeIsIntersection ==
    [][(/\ last'.op \in {"add_dataset", "remove_datasets"}
        /\ last'.raised = ""
        /\ HasRecipeLayer(recipe_input_layer_ids)
        /\ recipe_uses_layer(recipe_input_layer_ids, last'.layer)
        /\ layer_timeline[CompositeLayer] =
               InputIntersection(recipe_input_layer_ids, layer_timeline)) =>
          layer_timeline'[CompositeLayer] =
              InputIntersection(recipe_input_layer_ids, layer_timeline')]_vars

WithoutLayer(ls, layer) == SelectSeq(ls, LAMBDA l : l # layer)

\* The number of layers of the list made for the grouping key `key`.
LayersOfKey(ls, key) == Len(SelectSeq(ls, LAMBDA l : l = key))

C23_AddGroups ==
    (last'.op = "add_dataset") =>
        /\ IF InLayers(layers, last'.layer)
           THEN layers' = layers
           ELSE /\ Len(layers') = Len(layers) + 1
                /\ WithoutLayer(layers', last'.layer) = layers
        /\ LayersOfKey(layers', last'.layer) = 1
        /\ layer_timeline[last'.layer] \subseteq layer_timeline'[last'.layer]
        /\ layer_timeline'[last'.layer] # {}
        /\ Cardinality(layer_timeline'[last'.layer] \ layer_timeline[last'.layer]) <= 1
        /\ \A l \in LayerIds \ {last'.layer} : layer_timeline'[l] = layer_timeline[l]

C23_OneLayerPerKey == \A key \in LayerIds : LayersOfKey(layers, key) <= 1

\* C23: add_dataset of a dataset whose grouping key is the key of a layer of
\* the model puts the dataset into that layer and creates no layer; with a
\* key no layer has, one layer with that key is created and gets the dataset.
\* So no two layers made for datasets ever have the same grouping key.
C23_GroupingByKey == [][C23_AddGroups]_vars /\ []C23_OneLayerPerKey

\* A dataset was added to a layer that had one already, with another layer
\* for another key in the model.
C23_Witness ==
    /\ last.op = "add_dataset"
    /\ Cardinality(layer_timeline[last.layer]) >= 2
    /\ \E l \in LayerIds : l # last.layer /\ InLayers(layers, l)
    /\ C23_OneLayerPerKey

\* --------------------------------------------------------------- C25
\* C25: the driving policy reads the timelines of the layers and never
\* changes them: a step, a jump and a selection of the driving layer leave
\* every layer's timeline (and the list of layers) as it is, and the
\* layers-update slot run after add_dataset or remove_datasets_from_all_layers
\* leaves the timelines as that operation made them, one dataset added to or
\* removed from the one layer.
C25_PolicyOnlyReadsTimelines ==
    [][/\ (last'.op \in {"step", "jump", "change_timebase"}) => layerVars' = layerVars
       /\ (last'.op = "add_dataset" /\ ~last'.cascade) =>
             \E t \in Times :
                layer_timeline' = item_add_dataset(layer_timeline, last'.layer, t)
       /\ (last'.op = "remove_datasets") =>
             \E t \in Times :
                layer_timeline' = item_remove_dataset(layer_timeline, last'.layer, t)
      ]_vars

\* A step that moved the cursor on a driving timeline of three timestamps,
\* which the driving layer still has.
C25_Witness ==
    /\ last.op = "step" /\ last.raised = "" /\ last.before_idx = 1
    /\ policy.driving_layer # None
    /\ policy.driving_idx = 2
    /\ layer_timeline[policy.driving_layer] = {1, 2, 3}
    /\ policy.timeline = TimelineKeys(layer_timeline, policy.driving_layer)

\* --------------------------------------------------------------- C21
\* The recipe layers of the model whose recipe lists `layer` among its inputs.
Dependents(layer) ==
    {r \in {CompositeLayer} :
        HasRecipeLayer(recipe_input_layer_ids)
        /\ recipe_uses_layer(recipe_input_layer_ids, layer)}
    \cup {r \in {AlgebraicLayer} :
        HasRecipeLayer(algebraic_recipe.input_layer_ids)
        /\ recipe_uses_layer(algebraic_recipe.input_layer_ids, layer)}

\* C21: when add_dataset has changed the timeline of a layer, the cascade has
\* been run for every layer whose recipe lists that layer, composite or
\* algebraic; and whenever the cascade has been run for a recipe layer, within
\* add_dataset or as update_recipe_layer_timeline, it has been run for the
\* layers whose recipe lists that recipe layer as well.
C21_CascadeReachesDependents ==
    [][(last'.op \in {"add_dataset", "update_recipe_layer_timeline"}
        /\ last'.raised = "") =>
          /\ (last'.op = "add_dataset") => Dependents(last'.layer) \subseteq last'.cascaded
          /\ \A r \in last'.cascaded : Dependents(r) \subseteq last'.cascaded]_vars

\* --------------------------------------------------------------- C22
\* The notifications that publish a dataset of a composite layer.
PublishingSignals == {"didChangeCompositeProductDataset", "didAddCompositeDataset"}

\* C22: a cascade run on the composite layer whose recipe cannot produce a
\* valid result (an input channel is missing) does not raise, leaves no
\* dataset in the composite layer at any timestamp it recomputed or made, and
\* publishes no dataset at such a timestamp.
C22_InvalidResultIsRemoved ==
    [][(/\ last'.op = "update_recipe_layer_timeline"
        /\ last'.layer = CompositeLayer
        /\ ~multichannel_info_valid(
               get_layers_by_uuids(layers, recipe_input_layer_ids))) =>
          /\ last'.raised = ""
          /\ \A t \in last'.updated \cup last'.added :
                /\ t \notin layer_timeline'[CompositeLayer]
                /\ \A i \in 1..Len(last'.events) :
                      last'.events[i].t = t =>
                          last'.events[i].signal \notin PublishingSignals]_vars

\* --------------------------------------------------------------- C24
\* Some layer has lost a dataset in the step.
DatasetRemoved ==
    \E l \in AllLayerIds : layer_timeline[l] \ layer_timeline'[l] # {}

\* C24: a step that removes a dataset from a layer, by
\* remove_datasets_from_all_layers or by the cascade, leaves the list of
\* layers as it was, also when the layer is left without datasets.
C24_RemovalKeepsLayers ==
    [][DatasetRemoved => layers' = layers]_vars

\* The cascade has removed the last dataset of the algebraic layer after the
\* last dataset of one of its input layers was removed: both layers are
\* still in the list of layers.
C24_Witness ==
    /\ last.op = "update_recipe_layer_timeline" /\ last.layer = AlgebraicLayer
    /\ last.removed # {}
    /\ layer_timeline[AlgebraicLayer] = {}
    /\ InLayers(layers, AlgebraicLayer)
    /\ \E l \in LayerIds :
          /\ recipe_uses_layer(algebraic_recipe.input_layer_ids, l)
          /\ layer_timeline[l] = {}
          /\ InLayers(layers, l)

\* --------------------------------------------------------------- C26
\* The timelines a cascade run of the step starts from: within add_dataset
\* the layer of the new dataset has it already.
TimelinesAtCascade ==
    IF last'.op = "add_dataset"
    THEN [layer_timeline EXCEPT ![last'.layer] = layer_timeline'[last'.layer]]
    ELSE layer_timeline

\* The common timeline the cascade of the composite layer computes from the
\* timelines tls.
CommonTimeline(ls, tls) ==
    get_common_timeline_of_input_layers(
        get_timeline_of_layers(tls, get_layers_by_uuids(ls, recipe_input_layer_ids)))

\* C26: the diff a cascade run on the composite layer makes of the common
\* timeline against the layer's timeline has, to add, the timestamps in the
\* common timeline only, to update, those in both, to remove, those in the
\* layer's timeline only; the three sets are pairwise disjoint and together
\* they are the union of the two timelines. The run adds and removes what
\* the diff says and updates nothing else than the diff's timestamps to
\* update.
C26_DiffClassifies ==
    [][(/\ last'.cascade
        /\ last'.op = "update_recipe_layer_timeline" => last'.layer = CompositeLayer) =>
          LET common == CommonTimeline(layers', TimelinesAtCascade)
              current == layer_timeline[CompositeLayer]
              d == get_diff_of_timelines(common, current)
          IN /\ d.to_add = common \ current
             /\ d.to_update = common \cap current
             /\ d.to_remove = current \ common
             /\ d.to_add \cap d.to_update = {}
             /\ d.to_add \cap d.to_remove = {}
             /\ d.to_update \cap d.to_remove = {}
             /\ d.to_add \cup d.to_update \cup d.to_remove = common \cup current
             /\ last'.added = d.to_add
             /\ last'.removed = d.to_remove
             /\ last'.updated \subseteq d.to_update]_vars

\* A cascade run on the composite layer that added a timestamp, removed one
\* and found one in both timelines.
C26_Witness ==
    /\ last.cascade /\ last.raised = ""
    /\ last.added # {}
    /\ last.removed # {}
    /\ layer_timeline[CompositeLayer] \ last.added # {}

\* --------------------------------------------------------------- C27
\* The timestamps of a recipe layer whose dataset lists input dataset
\* identifiers other than those of the datasets now in the input layers.
InputsChangedOf(layer) ==
    IF layer = AlgebraicLayer THEN algebraic_recipe.inputs_changed ELSE inputs_changed

\* C27: a run of update_recipe_layer_timeline on a recipe layer recomputes,
\* among the timestamps in both the common timeline and the layer's timeline,
\* only those whose input dataset identifiers have changed since the dataset
\* was made.
C27_UpdateOnlyChangedInputs ==
    [][(last'.op = "update_recipe_layer_timeline") =>
          last'.updated \subseteq InputsChangedOf(last'.layer)]_vars

\* The timestamps in both the common timeline of the inputs of a recipe layer
\* and the layer's timeline.
ExistingSchedTimes(layer) ==
    get_diff_of_timelines(
        get_common_timeline_of_input_layers(
            get_timeline_of_layers(layer_timeline,
                get_layers_by_uuids(layers,
                    IF layer = AlgebraicLayer THEN algebraic_recipe.input_layer_ids
                    ELSE recipe_input_layer_ids))),
        layer_timeline[layer]).to_update

\* C27, amended: a run of update_recipe_layer_timeline recomputes only
\* timestamps in both the common timeline and the layer's timeline, and only
\* those whose input dataset identifiers have changed, unless the layer's
\* recipe is an AlgebraicRecipe marked as modified.
C27_UpdateOnlyChangedOrModified ==
    [][(last'.op = "update_recipe_layer_timeline") =>
          /\ last'.updated \subseteq ExistingSchedTimes(last'.layer)
          /\ ~(last'.layer = AlgebraicLayer /\ algebraic_recipe.modified) =>
                last'.updated \subseteq InputsChangedOf(last'.layer)]_vars

\* A run on the algebraic layer that has recomputed one timestamp and left
\* another, in both timelines as well, untouched.
C27_Witness ==
    /\ last.op = "update_recipe_layer_timeline" /\ last.layer = AlgebraicLayer
    /\ last.raised = ""
    /\ last.updated # {}
    /\ last.added = {}
    /\ layer_timeline[AlgebraicLayer] \ last.updated # {}

\* --------------------------------------------------------------- C28
\* Every notification of `events` for a timestamp of `first` comes before
\* every notification for a timestamp of `then`.
AllBefore(events, first, then) ==
    \A i, j \in 1..Len(events) :
        (events[i].t \in first /\ events[j].t \in then) => i < j

\* C28: in a run of update_recipe_layer_timeline on a recipe layer, whatever
\* is done for a timestamp to remove is done before anything is done for a
\* timestamp to update or to add, and whatever is done for a timestamp to
\* update before anything is done for a timestamp to add.
C28_RemoveThenUpdateThenAdd ==
    [][(last'.op = "update_recipe_layer_timeline") =>
          /\ AllBefore(last'.events, last'.removed, last'.updated \cup last'.added)
          /\ AllBefore(last'.events, last'.updated, last'.added)]_vars

\* A run on the algebraic layer that has both recomputed a timestamp and
\* added one.
C28_Witness ==
    /\ last.op = "update_recipe_layer_timeline" /\ last.layer = AlgebraicLayer
    /\ last.raised = ""
    /\ last.updated # {}
    /\ last.added # {}
    /\ Len(last.events) >= 3

\* --------------------------------------------------------------- C29
\* The number of notifications of `events` for the timestamp t.
NotificationsFor(events, t) ==
    Cardinality({i \in 1..Len(events) : events[i].t = t})

\* C29: a run of update_recipe_layer_timeline on a recipe layer, composite
\* or algebraic, emits exactly one dataset notification for each timestamp it
\* removes, updates or adds.
C29_OneNotificationPerTimestamp ==
    [][(last'.op = "update_recipe_layer_timeline") =>
          \A t \in last'.removed \cup last'.updated \cup last'.added :
              NotificationsFor(last'.events, t) = 1]_vars

\* --------------------------------------------------------------- C30
\* The input layer lists of a recipe: one layer or none for each of the
\* three channels.
InputIdLists == [1..3 -> LayerIds \cup {None}]

\* The layers of the list ids that the model has.
PresentInputs(ls, ids) ==
    {ids[i] : i \in {j \in 1..Len(ids) : ids[j] # None /\ InLayers(ls, ids[j])}}

\* The timestamps that the timelines of all the layers of S have; none when
\* S is empty.
SetIntersection(S, tls) ==
    IF S = {} THEN {} ELSE {t \in Times : \A l \in S : t \in tls[l]}

\* C30: for every list of input layers, in any order, the common timeline the
\* cascade computes is the set of the timestamps that the timelines of all
\* the input layers of the list have, and is empty when the list has no
\* layer of the model.
C30_CommonIsIntersection ==
    \A ids \in InputIdLists :
        get_common_timeline_of_input_layers(
            get_timeline_of_layers(layer_timeline, get_layers_by_uuids(layers, ids)))
        = SetIntersection(PresentInputs(layers, ids), layer_timeline)

\* A cascade run on the composite layer over two input layers with different
\* timelines that share one timestamp, which is what the composite layer has.
C30_Witness ==
    /\ last.cascade /\ last.raised = ""
    /\ HasRecipeLayer(recipe_input_layer_ids)
    /\ layer_timeline[1] = {1, 2}
    /\ layer_timeline[MaxLayers] = {2, 3}
    /\ layer_timeline[CompositeLayer] = {2}
    /\ last.added = {2}

\* --------------------------------------------------------------- C31
\* C31: with a composite layer whose timeline is the common timeline of its
\* input layers, at every publish of an activation mapping within an
\* add_dataset the timeline of the composite layer is the common timeline of
\* its input layers as they are at that publish.
C31_PublishAfterCascade ==
    [][(/\ last'.op = "add_dataset"
        /\ HasRecipeLayer(recipe_input_layer_ids)
        /\ layer_timeline[CompositeLayer] = CommonTimeline(layers, layer_timeline)) =>
          \A i \in 1..Len(last'.published) :
              last'.published[i][CompositeLayer]
              = CommonTimeline(layers', last'.published[i])]_vars

\* --------------------------------------------------------------- C32
Favoured(layer) == KindOf(layer) \in {"LINES", "POINTS"}

\* The LINES and POINTS layers of the list come before all the others.
FavouredFirst(ls) ==
    \A i, j \in 1..Len(ls) : (i < j /\ Favoured(ls[j])) => Favoured(ls[i])

\* A call of _add_layer has put the new layer at position r of the list and
\* left the others in their order.
PlacedAt(r) ==
    /\ r \in 1..Len(layers')
    /\ layers'[r] = last'.layer
    /\ SubSeq(layers', 1, r - 1) \o SubSeq(layers', r + 1, Len(layers')) = layers

\* C32: a call of _add_layer that does not raise puts a LINES or POINTS layer
\* at the front, and a layer of another kind right in front of the first
\* layer that is neither LINES nor POINTS, at the end when there is none;
\* after any calls of _add_layer alone the LINES and POINTS layers come
\* before all other layers.
C32_PlacementByKind ==
    /\ [][(last'.op = "add_layer" /\ last'.raised = "") =>
             \E r \in 1..(Len(layers) + 1) :
                /\ PlacedAt(r)
                /\ Favoured(last'.layer) => r = 1
                /\ ~Favoured(last'.layer) =>
                      /\ \A i \in 1..(r - 1) : Favoured(layers[i])
                      /\ r <= Len(layers) => ~Favoured(layers[r])]_vars
    /\ []FavouredFirst(layers)

\* An IMAGE layer was added to a list with a LINES layer, a POINTS layer and
\* two layers of other kinds, and stands between them.
C32_Witness ==
    /\ last.op = "add_layer" /\ last.raised = ""
    /\ KindOf(last.layer) = "IMAGE"
    /\ Len(layers) = 5
    /\ layers[3] = last.layer
    /\ {KindOf(layers[1]), KindOf(layers[2])} = {"LINES", "POINTS"}
    /\ ~Favoured(layers[4]) /\ ~Favoured(layers[5])

\* --------------------------------------------------------------- C40
\* No layer is in the list twice.
NoDuplicateLayers(ls) ==
    \A i, j \in 1..Len(ls) : ls[i] = ls[j] => i = j

\* C40: _add_layer called with a layer that is in the list raises ValueError,
\* leaves the list of layers as it is and emits no didReorderLayers; no list
\* of layers has a layer twice.
C40_DuplicateLayerRaises ==
    /\ [][(last'.op = "add_layer" /\ InLayers(layers, last'.layer)) =>
             /\ last'.raised = "ValueError"
             /\ layers' = layers
             /\ \A i \in 1..Len(last'.events) :
                   last'.events[i].signal # "didReorderLayers"]_vars
    /\ []NoDuplicateLayers(layers)

\* _add_layer has raised for a layer of a list of several layers.
C40_Witness ==
    /\ last.op = "add_layer" /\ last.raised = "ValueError"
    /\ InLayers(layers, last.layer)
    /\ Len(layers) >= 3
    /\ last.events = <<>>

\* --------------------------------------------------------------- C33
\* Iterating the timeline yields strictly ascending timestamps.
AscendingTimeline(timeline) ==
    \A i, j \in 1..Len(timeline) : i < j => timeline[i].k < timeline[j].k

\* C33: the timeline of every DataLayer made from a list of (uuid, timestamp)
\* tuples, and the timeline of every data layer of the collection after any
\* calls of notify_update_collection and remove_by_uuid, yields strictly
\* ascending timestamps when iterated.
C33_TimelineSorted ==
    /\ \A i \in 1..Len(last.new_data_layers) :
          AscendingTimeline(last.new_data_layers[i].timeline)
    /\ \A key \in DOMAIN data_layers : AscendingTimeline(data_layers[key])

\* notify_update_collection has given a data layer that had a time step at
\* timestamp 2 a time step at timestamp 1, which comes first in the timeline.
C33_Witness ==
    /\ last.op = "notify_update_collection"
    /\ Len(last.new_data_layers) = 1
    /\ Len(last.new_data_layers[1].timeline) = 1
    /\ last.new_data_layers[1].timeline[1].k = 1
    /\ last.new_data_layers[1].product_family_key \in DOMAIN data_layers
    /\ LET timeline == data_layers[last.new_data_layers[1].product_family_key] IN
          /\ Len(timeline) = 2
          /\ timeline[1] = last.new_data_layers[1].timeline[1]
          /\ timeline[2].k = 2

\* --------------------------------------------------------------- C34
\* The number of time steps of the timeline with the uuid.
StepsWithUuid(timeline, uuid) ==
    Cardinality({i \in 1..Len(timeline) : timeline[i].v = uuid})

TimeSteps(timeline) == {timeline[i] : i \in 1..Len(timeline)}

\* C34: notify_update_collection with one data layer whose key the collection
\* knows makes no new data layer, keeps every time step the data layer of the
\* collection has, adds no second time step for a uuid it has, and gives it
\* a time step for every uuid that is new; with a key not known, the data
\* layer becomes a data layer of the collection. The data layers of other
\* keys stay as they are.
C34_MergeWithoutDuplication ==
    [][(last'.op = "notify_update_collection" /\ Len(last'.new_data_layers) = 1) =>
          LET data_layer == last'.new_data_layers[1]
              key == data_layer.product_family_key
          IN /\ \A k \in DOMAIN data_layers \ {key} :
                    k \in DOMAIN data_layers' /\ data_layers'[k] = data_layers[k]
             /\ key \in product_family_keys =>
                   /\ DOMAIN data_layers' = DOMAIN data_layers
                   /\ TimeSteps(data_layers[key]) \subseteq TimeSteps(data_layers'[key])
                   /\ \A u \in DictValues(data_layers[key]) :
                         StepsWithUuid(data_layers'[key], u)
                         <= StepsWithUuid(data_layers[key], u)
                   /\ \A u \in DictValues(data_layer.timeline) :
                         u \in DictValues(data_layers'[key])
             /\ key \notin product_family_keys =>
                   /\ DOMAIN data_layers' = DOMAIN data_layers \cup {key}
                   /\ product_family_keys' = product_family_keys \cup {key}
                   /\ data_layers'[key] = data_layer.timeline]_vars

\* --------------------------------------------------------------- C35
PresentationOps ==
    {"change_colormap_for_layer", "change_color_limits_for_layer", "change_gamma_for_layer"}

SettingOf(op) ==
    IF op = "change_colormap_for_layer" THEN "colormap"
    ELSE IF op = "change_color_limits_for_layer" THEN "climits" ELSE "gamma"

\* C35: change_colormap_for_layer, change_color_limits_for_layer and
\* change_gamma_for_layer, for a layer of the model, set that setting of the
\* layer's presentation to the new value and leave its other settings, emit
\* one change mapping whose keys are the uuids of all the datasets of the
\* layer, each mapped to the new value, and leave the presentation of every
\* other layer as it is.
C35_PresentationChange ==
    [][(last'.op \in PresentationOps /\ InLayers(layers, last'.layer)) =>
          /\ last'.raised = ""
          /\ presentation'[last'.layer][SettingOf(last'.op)] = last'.value
          /\ \A setting \in {"colormap", "climits", "gamma"} \ {SettingOf(last'.op)} :
                presentation'[last'.layer][setting] = presentation[last'.layer][setting]
          /\ \A l \in AllLayerIds \ {last'.layer} : presentation'[l] = presentation[l]
          /\ Len(last'.events) = 1
          /\ DOMAIN last'.events[1].change
                = {DatasetUuid(last'.layer, t) : t \in layer_timeline[last'.layer]}
          /\ \A u \in DOMAIN last'.events[1].change :
                last'.events[1].change[u] = last'.value]_vars

\* The gamma of a layer with two datasets was changed while another layer,
\* with a dataset and another gamma, is in the model.
C35_Witness ==
    /\ last.op = "change_gamma_for_layer" /\ last.raised = ""
    /\ Cardinality(layer_timeline[last.layer]) = 2
    /\ Len(last.events) = 1
    /\ Cardinality(DOMAIN last.events[1].change) = 2
    /\ presentation[last.layer].gamma = 1
    /\ \E l \in LayerIds \ {last.layer} :
          /\ InLayers(layers, l) /\ layer_timeline[l] # {}
          /\ presentation[l].gamma = 0

\* --------------------------------------------------------------- C36
\* C36: after a layers-update (with add_dataset or
\* remove_datasets_from_all_layers) in a model that has a dynamic layer, the
\* policy has a driving layer, its timeline is the list of the timeline keys
\* that layer has now, and its cursor is a position of that list.
C36_SnapshotFollowsDrivingLayer ==
    [][(/\ last'.op \in LayersUpdateOps
        /\ FirstDynamicLayer(layers', layer_dynamic') # None) =>
          /\ policy'.driving_layer # None
          /\ policy'.timeline = TimelineKeys(layer_timeline', policy'.driving_layer)
          /\ CursorValid(policy')]_vars

\* --------------------------------------------------------------- C37
\* A step and then a step the other way, from the policy p, restore the
\* cursor and the simulated time of p.
StepRoundTrip(p, backwards) ==
    LET one == compute_t_sim(p, backwards)
        two == compute_t_sim(one.p, ~backwards)
    IN /\ one.raised = "" /\ two.raised = ""
       /\ two.p.driving_idx = p.driving_idx
       /\ two.p.curr_t_sim = p.curr_t_sim
       /\ two.ret = p.curr_t_sim

\* C37: with a driving timeline that is not empty, a forward step followed by
\* a backward step, and a backward step followed by a forward step, restore
\* the cursor and the simulated time.
C37_StepRoundTrip ==
    (~IsNoneList(policy.timeline) /\ Len(policy.timeline) > 0) =>
        StepRoundTrip(policy, FALSE) /\ StepRoundTrip(policy, TRUE)

\* --------------------------------------------------------------- C39
\* The layers named in a dict of matches.
NamedLayers(t_matched_dict) == {t_matched_dict[i].layer : i \in 1..Len(t_matched_dict)}

\* C39: when the layer model consumes a dict of matches, the active flags of
\* the datasets of every layer the dict does not name are left as they were.
C39_OnlyNamedLayersChange ==
    [][(last'.op = "on_didMatchTimes") =>
          \A l \in AllLayerIds \ NamedLayers(last'.matched) : active'[l] = active[l]]_vars

\* A dict that names one layer was consumed and changed a flag of that layer,
\* while a dataset of a layer it does not name is active.
C39_Witness ==
    /\ last.op = "on_didMatchTimes"
    /\ \E l1, l2 \in LayerIds :
          /\ NamedLayers(last.matched) = {l1}
          /\ l2 # l1 /\ active[l2] # {}
          /\ layer_timeline[l1] = {1, 2} /\ active[l1] = {2}

\* --------------------------------------------------------------- C38
\* The calls of update_recipe_layer_timeline a step makes: those of the run
\* itself, or those _trigger_composite_layer_update makes for the layer that
\* got a dataset.
CascadeCalls ==
    IF last'.op = "update_recipe_layer_timeline"
    THEN update_recipe_layer_timeline_calls(layers', recipe_input_layer_ids',
             algebraic_recipe'.input_layer_ids, last'.layer, 1)
    ELSE IF last'.op = "add_dataset"
    THEN trigger_composite_layer_update_calls(layers', recipe_input_layer_ids',
             algebraic_recipe'.input_layer_ids, last'.layer, 1, 1)
    ELSE <<>>

\* C38: the cascade one change starts ends, whatever the recipes list: no call
\* of update_recipe_layer_timeline is nested deeper than two, there are no
\* more calls than recipe layers, and the layers the step has recomputed are
\* the layers of these calls.
C38_CascadeTerminates ==
    [][LET calls == CascadeCalls IN
       /\ \A i \in 1..Len(calls) : calls[i].depth <= 2
       /\ Len(calls) <= 2
       /\ last'.cascade => last'.cascaded = {calls[i].layer : i \in 1..Len(calls)}]_vars

\* A run for the algebraic layer that lists itself and the composite, with a
\* composite that lists itself and the algebraic layer, has ended after the
\* nested run for the composite.
C38_Witness ==
    /\ last.op = "update_recipe_layer_timeline" /\ last.layer = AlgebraicLayer
    /\ recipe_input_layer_ids = CyclicRgbInputLayerIds
    /\ algebraic_recipe.input_layer_ids = CyclicAlgebraicInputLayerIds
    /\ last.cascaded = {AlgebraicLayer, CompositeLayer}


====
